---- MODULE Spec2Model ----
(***************************************************************************)
(* A model of the YouTube summarizer bot: the per-user session store       *)
(* (bot/session.py), the transcript cache (bot/youtube.py), the model-call *)
(* wrappers (bot/summarizer.py, bot/qa.py) and the message handlers        *)
(* (bot/handlers.py) as coroutines that interleave at their awaits.        *)
(***************************************************************************)
EXTENDS Integers, Sequences, FiniteSets, TLC

\* ------------------------------------------------------------------ bounds
\* The clock (time.time()) runs from 0 to MaxTime.
MaxTime == 2
\* add_chat_turn is called at most MaxTurns times on one session object.
MaxTurns == 3

\* ------------------------------------------------- configuration (config.py)
\* TTLs and the history length are scaled down; the code compares against
\* them and nothing else depends on their magnitude.
SESSION_TTL_SECONDS == 1
MAX_CHAT_HISTORY == 2
TRANSCRIPT_CACHE_TTL_SECONDS == 2
DEFAULT_LANGUAGE == "english"
\* The keys of SUPPORTED_LANGUAGES that the model uses.
SUPPORTED_LANGUAGES == {"english", "hindi"}

\* ------------------------------------------------------------------- values
Users == {1, 2}
Videos == {1, 2}
None == 0
\* Session objects live on a heap; a reference is an object id or None.
Questions == {1, 2}

\* A text produced for the user: tag "" is the empty string.
NoText == [tag |-> "", video |-> 0, lang |-> "", q |-> 0]

VARIABLES
    now,        \* time.time()
    sessions,   \* session.py _sessions: user -> reference or None
    heap,       \* the live UserSession objects: reference -> fields
    turnLog,    \* history: every turn add_chat_turn was given, per object
    lastCall,   \* the last store call and what it returned
    cache,      \* youtube.py _transcript_cache: video -> entry
    lastFetch,  \* the last get_transcript call and what it returned
    task,       \* the handler coroutines: request -> locals and position
    split,      \* the last _split_transcript call and what it returned
    gen,        \* a generate_summary coroutine: locals, position, calls made
    detect,     \* the last detect_language_request call and what it returned
    built,      \* the last transcript text built from segments (youtube.py)
    message,    \* the last split_message call and what it returned
    loop        \* a _split_transcript call, pass by pass: locals and position

storeVars == <<now, sessions, heap, turnLog, lastCall>>
cacheVars == <<now, cache, lastFetch>>
summaryVars == <<split, gen>>
helperVars == <<detect, built, message, loop>>
vars == <<now, sessions, heap, turnLog, lastCall, cache, lastFetch, task,
          split, gen, helperVars>>

\* --------------------------------------------------------------- session.py
\* UserSession(...) with the dataclass defaults.
UserSession(video_id, transcript_text, t) ==
    [video_id |-> video_id,
     transcript_text |-> transcript_text,
     summary |-> NoText,
     language |-> DEFAULT_LANGUAGE,
     chat_history |-> << >>,
     last_activity |-> t,
     is_processing |-> FALSE]

touch(s, t) == [s EXCEPT !.last_activity = t]

is_expired_at_ttl(s, t) == (t - s.last_activity) >= SESSION_TTL_SECONDS
is_expired(s, t) == (t - s.last_activity) > SESSION_TTL_SECONDS

add_chat_turn_keeps_oldest(s, question, answer, t) ==
    LET h1 == Append(Append(s.chat_history,
                            [role |-> "user", content |-> question]),
                     [role |-> "assistant", content |-> answer])
        max_messages == MAX_CHAT_HISTORY * 2
        h2 == IF Len(h1) > max_messages THEN SubSeq(h1, 1, max_messages) ELSE h1
    IN touch([s EXCEPT !.chat_history = h2], t)

add_chat_turn(s, question, answer, t) ==
    LET h1 == Append(Append(s.chat_history,
                            [role |-> "user", content |-> question]),
                     [role |-> "assistant", content |-> answer])
        max_messages == MAX_CHAT_HISTORY * 2
        h2 == IF Len(h1) > max_messages
              THEN SubSeq(h1, Len(h1) - max_messages + 1, Len(h1))
              ELSE h1
    IN touch([s EXCEPT !.chat_history = h2], t)

\* The store is the pair (sessions, heap), passed as a record st.
Store == [sessions |-> sessions, heap |-> heap]

get_session_ignores_expiry(st, u, t) ==
    LET id == st.sessions[u] IN
    IF id = None THEN [st |-> st, ret |-> None]
    ELSE [st |-> [st EXCEPT !.heap[id] = touch(@, t)], ret |-> id]

get_session_without_touch(st, u, t) ==
    LET id == st.sessions[u] IN
    IF id = None THEN [st |-> st, ret |-> None]
    ELSE IF is_expired(st.heap[id], t)
         THEN [st |-> [st EXCEPT !.sessions[u] = None], ret |-> None]
         ELSE [st |-> st, ret |-> id]

\* get_session: the new store and the reference returned.
get_session(st, u, t) ==
    LET id == st.sessions[u] IN
    IF id = None THEN [st |-> st, ret |-> None]
    ELSE IF is_expired(st.heap[id], t)
         THEN [st |-> [st EXCEPT !.sessions[u] = None], ret |-> None]
         ELSE [st |-> [st EXCEPT !.heap[id] = touch(@, t)], ret |-> id]

create_session_updates_in_place(st, u, id, video_id, transcript_text, t) ==
    LET old == st.sessions[u]
        new == UserSession(video_id, transcript_text, t)
        obj == IF old # None /\ old \in DOMAIN st.heap
               THEN [st.heap[old] EXCEPT !.video_id = video_id,
                                         !.transcript_text = transcript_text,
                                         !.summary = NoText,
                                         !.last_activity = t]
               ELSE new
    IN [st |-> [sessions |-> [st.sessions EXCEPT ![u] = id],
                heap |-> [x \in DOMAIN st.heap \cup {id} |->
                             IF x = id THEN obj ELSE st.heap[x]]],
        ret |-> id]

\* id is the address the allocator gives the new object.
create_session(st, u, id, video_id, transcript_text, t) ==
    LET obj == UserSession(video_id, transcript_text, t)
    IN [st |-> [sessions |-> [st.sessions EXCEPT ![u] = id],
                heap |-> [x \in DOMAIN st.heap \cup {id} |->
                             IF x = id THEN obj ELSE st.heap[x]]],
        ret |-> id]

set_session_language(st, u, language, t) ==
    LET g == get_session(st, u, t) IN
    IF g.ret = None THEN [st |-> g.st, ret |-> FALSE]
    ELSE [st |-> [g.st EXCEPT !.heap[g.ret].language = language], ret |-> TRUE]

set_session_summary(st, u, summary, t) ==
    LET g == get_session(st, u, t) IN
    IF g.ret = None THEN g.st
    ELSE [g.st EXCEPT !.heap[g.ret].summary = summary]

cleanup_removes_one_session(st, t) ==
    LET expired == {uid \in Users : st.sessions[uid] # None
                                    /\ is_expired(st.heap[st.sessions[uid]], t)}
        first == IF expired = {} THEN {}
                 ELSE {CHOOSE uid \in expired : \A x \in expired : uid <= x}
    IN [st |-> [st EXCEPT !.sessions =
                    [uid \in Users |-> IF uid \in first THEN None
                                       ELSE st.sessions[uid]]],
        ret |-> Cardinality(expired)]

cleanup_expired_sessions(st, t) ==
    LET expired == {uid \in Users : st.sessions[uid] # None
                                    /\ is_expired(st.heap[st.sessions[uid]], t)}
    IN [st |-> [st EXCEPT !.sessions =
                    [uid \in Users |-> IF uid \in expired THEN None
                                       ELSE st.sessions[uid]]],
        ret |-> Cardinality(expired)]

\* Reference counting: an object no reference in roots reaches is freed.
Collect(h, roots) == [id \in DOMAIN h \cap roots |-> h[id]]
Stored(s) == {s[u] : u \in Users} \ {None}

\* The text a transcript fetch yields for a video: the transcript of video 1
\* fits one prompt, that of video 2 is summarised in chunks.
TranscriptTexts(v) == {[video |-> v, size |-> IF v = 1 THEN "short" ELSE "long"]}
\* What the model answers: a summary of video v in language l, an answer to
\* question q about video v in language l; and the text of question q.
SummaryText(v, l) == [tag |-> "summary", video |-> v, lang |-> l, q |-> 0]
AnswerText(v, l, q) == [tag |-> "answer", video |-> v, lang |-> l, q |-> q]
QuestionText(q) == [tag |-> "question", video |-> 0, lang |-> "", q |-> q]

\* ------------------------------------------------- the store's operations
\* Write back a store, freeing what nothing in the store or in roots reaches.
Commit(st, log, roots) ==
    /\ sessions' = st.sessions
    /\ heap' = Collect(st.heap, Stored(st.sessions) \cup roots)
    /\ turnLog' = [id \in DOMAIN heap' |->
                      IF id \in DOMAIN log THEN log[id] ELSE << >>]

\* dropped: the session the call took out of the store, if it took one out.
Called(op, u, ret, dropped) ==
    lastCall' = [op |-> op, user |-> u, ret |-> ret, dropped |-> dropped]
Dropped(u, st) ==
    IF sessions[u] # None /\ st.sessions[u] # sessions[u]
    THEN <<heap[sessions[u]]>> ELSE << >>

StoreGet(u) ==
    LET g == get_session(Store, u, now) IN
    /\ Commit(g.st, turnLog, {})
    /\ Called("get", u, g.ret, Dropped(u, g.st))
    /\ UNCHANGED <<now, cache, lastFetch, task, split, gen,
                   helperVars>>

\* With no handler holding a reference the replaced object is freed at once,
\* so the new object can take the address u.
StoreCreate(u, v, text) ==
    LET c == create_session(Store, u, u, v, text, now) IN
    /\ Commit(c.st, [id \in DOMAIN turnLog \ {c.ret} |-> turnLog[id]], {})
    /\ Called("create", u, c.ret,
              IF sessions[u] # None THEN <<heap[sessions[u]]>> ELSE << >>)
    /\ UNCHANGED <<now, cache, lastFetch, task, split, gen,
                   helperVars>>

StoreSetLanguage(u, l) ==
    LET r == set_session_language(Store, u, l, now) IN
    /\ Commit(r.st, turnLog, {})
    /\ Called("set_language", u, IF r.ret THEN 1 ELSE 0, Dropped(u, r.st))
    /\ UNCHANGED <<now, cache, lastFetch, task, split, gen,
                   helperVars>>

StoreSetSummary(u) ==
    /\ sessions[u] # None
    /\ LET s == heap[sessions[u]]
           st == set_session_summary(Store, u,
                                     SummaryText(s.video_id, DEFAULT_LANGUAGE), now)
       IN Commit(st, turnLog, {}) /\ Called("set_summary", u, 0, Dropped(u, st))
    /\ UNCHANGED <<now, cache, lastFetch, task, split, gen,
                   helperVars>>

\* session.is_processing = b, written by the handlers on a session they hold.
StoreSetProcessing(u, b) ==
    /\ sessions[u] # None
    /\ heap[sessions[u]].is_processing # b
    /\ Commit([Store EXCEPT !.heap[sessions[u]].is_processing = b], turnLog, {})
    /\ Called("set_processing", u, 0, << >>)
    /\ UNCHANGED <<now, cache, lastFetch, task, split, gen,
                   helperVars>>

StoreAddChatTurn(u, q) ==
    /\ sessions[u] # None
    /\ LET id == sessions[u] IN
       /\ Len(turnLog[id]) < MaxTurns
       /\ LET answer == AnswerText(heap[id].video_id, DEFAULT_LANGUAGE, q) IN
          Commit([Store EXCEPT !.heap[id] =
                      add_chat_turn(@, QuestionText(q), answer, now)],
                 [turnLog EXCEPT ![id] = Append(@, <<QuestionText(q), answer>>)],
                 {})
    /\ Called("add_chat_turn", u, 0, << >>)
    /\ UNCHANGED <<now, cache, lastFetch, task, split, gen,
                   helperVars>>

StoreCleanup ==
    LET c == cleanup_expired_sessions(Store, now) IN
    /\ Commit(c.st, turnLog, {})
    /\ Called("cleanup", None, c.ret, << >>)
    /\ UNCHANGED <<now, cache, lastFetch, task, split, gen,
                   helperVars>>

StoreTick ==
    /\ now < MaxTime
    /\ now' = now + 1
    /\ UNCHANGED <<sessions, heap, turnLog, lastCall, cache, lastFetch, task,
                 split, gen,
                   helperVars>>


\* --------------------------------------------------------------- youtube.py
\* A cache entry is the result dict of a fetch with its cached_at stamp.
CacheEntry(text, lang, is_auto, t) ==
    [transcript_text |-> text, language |-> lang,
     is_auto_generated |-> is_auto, cached_at |-> t]

\* _cache_get: the entry returned (as a sequence of 0 or 1) and the new cache.
cache_get_through_ttl(c, v, t) ==
    IF v \in DOMAIN c /\ (t - c[v].cached_at) <= TRANSCRIPT_CACHE_TTL_SECONDS
    THEN [cache |-> c, ret |-> <<c[v]>>]
    ELSE [cache |-> [x \in DOMAIN c \ {v} |-> c[x]], ret |-> << >>]

cache_get(c, v, t) ==
    IF v \in DOMAIN c /\ (t - c[v].cached_at) < TRANSCRIPT_CACHE_TTL_SECONDS
    THEN [cache |-> c, ret |-> <<c[v]>>]
    ELSE [cache |-> [x \in DOMAIN c \ {v} |-> c[x]], ret |-> << >>]

cache_set(c, v, data, t) ==
    LET entry == [data EXCEPT !.cached_at = t] IN
    [cache |-> [x \in DOMAIN c \cup {v} |-> IF x = v THEN entry ELSE c[x]],
     ret |-> entry]

\* The transcripts the provider can list, in the order it enumerates them.
Transcript(code, generated) == [language_code |-> code, is_generated |-> generated]
Listings ==
    {<< >>,
     <<Transcript("en", FALSE)>>,
     <<Transcript("en", TRUE)>>,
     <<Transcript("hi", TRUE)>>,
     <<Transcript("hi", TRUE), Transcript("en", TRUE)>>,
     <<Transcript("hi", FALSE), Transcript("en", TRUE)>>,
     <<Transcript("hi", FALSE), Transcript("en", FALSE), Transcript("en", TRUE)>>}

\* What the provider does on one call of get_transcript for video v:
\* list_transcripts succeeds or raises, the listing, fetch() succeeds or raises,
\* and the text the fetched segments join to.
ProviderReplies(v) ==
    [list : {"disabled", "unavailable", "error"}, listing : {<< >>},
     fetch : {"ok"}, text : TranscriptTexts(v)]
    \cup [list : {"ok"}, listing : Listings,
          fetch : {"ok", "error"}, text : TranscriptTexts(v)]

\* TranscriptList.find_transcript(["en"]): a manual "en", else a generated one.
FindEnglish(listing) ==
    LET manual == {i \in DOMAIN listing : listing[i].language_code = "en"
                                          /\ ~listing[i].is_generated}
        any == {i \in DOMAIN listing : listing[i].language_code = "en"}
    IN IF manual # {} THEN <<listing[CHOOSE i \in manual : TRUE]>>
       ELSE IF any # {} THEN <<listing[CHOOSE i \in any : TRUE]>>
       ELSE << >>

SelectTranscript_first_listed(listing) ==
    IF Len(listing) > 0 THEN <<listing[1]>> ELSE << >>

\* Lines 109-132: the transcript picked, as a sequence of 0 or 1.
SelectTranscript(listing) ==
    IF FindEnglish(listing) # << >> THEN FindEnglish(listing)
    ELSE IF Len(listing) > 0 THEN <<listing[1]>>
    ELSE << >>

Failed_as_generic(c, kind, n) ==
    [cache |-> c, error_type |-> "generic", data |-> << >>, provider_calls |-> n]

Failed_clears_cache(c, kind, n) ==
    [cache |-> << >>, error_type |-> kind, data |-> << >>, provider_calls |-> n]

\* raise TranscriptError(error_type = kind) after n calls to the provider.
Failed(c, kind, n) ==
    [cache |-> c, error_type |-> kind, data |-> << >>, provider_calls |-> n]

\* get_transcript: the new cache, the dict returned or the TranscriptError
\* raised, and how many calls went to the provider.
get_transcript(c0, v, prov, t) ==
    LET g == cache_get(c0, v, t)
        c == g.cache
        picked == SelectTranscript(prov.listing)
    IN IF g.ret # << >>
       THEN [cache |-> c, error_type |-> "", data |-> g.ret, provider_calls |-> 0]
       ELSE IF prov.list = "disabled" THEN Failed(c, "disabled", 1)
       ELSE IF prov.list = "unavailable" THEN Failed(c, "unavailable", 1)
       ELSE IF prov.list # "ok" THEN Failed(c, "generic", 1)
       ELSE IF picked = << >> THEN Failed(c, "not_found", 1)
       ELSE IF prov.fetch # "ok" THEN Failed(c, "generic", 2)
       ELSE LET lang == IF FindEnglish(prov.listing) # << >> THEN "en"
                        ELSE picked[1].language_code
                s == cache_set(c, v, CacheEntry(prov.text, lang,
                                                picked[1].is_generated, t), t)
            IN [cache |-> s.cache, error_type |-> "", data |-> <<s.ret>>,
                provider_calls |-> 2]

\* ------------------------------------------------ the cache's operations
CacheGetTranscript(v, prov) ==
    LET r == get_transcript(cache, v, prov, now) IN
    /\ cache' = r.cache
    /\ lastFetch' = [video |-> v, provider_calls |-> r.provider_calls,
                     error_type |-> r.error_type, data |-> r.data]
    /\ UNCHANGED <<now, sessions, heap, turnLog, lastCall, task, split, gen,
                   helperVars>>


\* ------------------------------------------------------------- handlers.py
\* The requests the bot receives, numbered in the order they arrive: one
\* request and a second that arrives at any point of the first.
Tasks == {1, 2}

\* A handler coroutine: its arguments (kind, user, video, lang, short, q, and
\* text, the words of the message, where the message itself is modelled), its
\* locals (session, genlang, left), where it is suspended (pc), and what it
\* has done: op, the long-running operation it started; fetched, whether it
\* called get_transcript; calls, the model calls it issued; outcome, how its
\* last model call ended; reply and shown, what it sent the user.
IdleTask ==
    [pc |-> "idle", kind |-> "", user |-> None, video |-> None, lang |-> "",
     short |-> FALSE, q |-> 0, session |-> None, genlang |-> "", left |-> 0,
     op |-> "", fetched |-> FALSE, error_type |-> "", calls |-> 0,
     outcome |-> "", reply |-> "", shown |-> NoText, text |-> << >>]

\* The references the suspended coroutines hold.
Held(tk) == {tk[t].session : t \in Tasks} \ {None}

\* utils.py: the fixed messages, by name.
ERROR_RATE_LIMIT == "ERROR_RATE_LIMIT"
ERROR_NO_SESSION == "ERROR_NO_SESSION"
ERROR_PROCESSING == "ERROR_PROCESSING"
ERROR_NO_TRANSCRIPT == "ERROR_NO_TRANSCRIPT"
ERROR_VIDEO_NOT_FOUND == "ERROR_VIDEO_NOT_FOUND"

\* The handler returns (or its exception leaves it): reply names the message
\* it sent last. Its locals are gone, the text it showed with them; what is
\* kept of it is what it was, what it did and the message it ended with.
Finish(tk, reply, shown) ==
    [IdleTask EXCEPT !.pc = "done", !.kind = tk.kind, !.user = tk.user,
                     !.op = tk.op, !.outcome = tk.outcome, !.calls = tk.calls,
                     !.fetched = tk.fetched, !.reply = reply,
                     !.lang = IF tk.kind = "language" THEN tk.lang ELSE ""]

\* ------------------------------------------------- summarizer.py and qa.py
\* The texts of the two notices that are returned instead of a model answer.
EmptyNotice == [tag |-> "empty_notice", video |-> 0, lang |-> "", q |-> 0]
QaEmptyNotice == [tag |-> "qa_empty_notice", video |-> 0, lang |-> "", q |-> 0]
QaErrorNotice == [tag |-> "qa_error_notice", video |-> 0, lang |-> "", q |-> 0]

\* _split_transcript gives this many chunks for a transcript over 2*CHUNK_SIZE.
NumChunks == 2
\* generate_summary: the model calls it makes for a transcript.
SummaryCalls(text) == IF text.size = "long" THEN NumChunks + 1 ELSE 1

call_gemini_swallows_error(outcome, text) ==
    IF outcome = "ok" THEN [raised |-> FALSE, text |-> text]
    ELSE [raised |-> FALSE, text |-> EmptyNotice]

\* _call_gemini: outcome is how the external call ended: "ok", a text; "empty",
\* no response or response.text == ""; "blank", a response.text of whitespace
\* only, which is truthy and is returned stripped; "error", an exception. It
\* returns a text or raises.
call_gemini(outcome, text) ==
    IF outcome = "error" THEN [raised |-> TRUE, text |-> NoText]
    ELSE IF outcome = "empty" THEN [raised |-> FALSE, text |-> EmptyNotice]
    ELSE IF outcome = "blank" THEN [raised |-> FALSE, text |-> NoText]
    ELSE [raised |-> FALSE, text |-> text]

\* answer_question: the same call, with its own except clause.
answer_question(outcome, text) ==
    IF outcome = "error" THEN [raised |-> FALSE, text |-> QaErrorNotice]
    ELSE IF outcome = "empty" THEN [raised |-> FALSE, text |-> QaEmptyNotice]
    ELSE IF outcome = "blank" THEN [raised |-> FALSE, text |-> NoText]
    ELSE [raised |-> FALSE, text |-> text]


\* ------------------------------------------------- summarizer.py: chunking
\* A text is a sequence of characters. The transcripts given to the splitter
\* and to generate_summary have at most MaxLen characters.
MaxLen == 6
\* The chunk sizes the splitter is called with: 1 .. MaxChunkSize.
MaxChunkSize == 3
\* config.py, scaled down: generate_summary chunks a text over twice this.
CHUNK_SIZE_CHARS == 2

Whitespace == {"\n", " "}
Chars == {"a", "b"} \cup Whitespace
Texts == UNION {[1 .. k -> Chars] : k \in 0 .. MaxLen}

rfind_ignores_end(text, ch, start, end) ==
    LET I == {i \in start .. Len(text) - 1 : text[i + 1] = ch}
    IN IF I = {} THEN -1 ELSE CHOOSE i \in I : \A j \in I : j <= i

\* str.rfind(ch, start, end): the highest 0-based index in text[start:end]
\* where ch stands, or -1.
rfind(text, ch, start, end) ==
    LET I == {i \in start .. end - 1 : i < Len(text) /\ text[i + 1] = ch}
    IN IF I = {} THEN -1 ELSE CHOOSE i \in I : \A j \in I : j <= i

lstrip_drops_a_character(text) ==
    IF text = << >> THEN text ELSE Tail(text)

\* str.lstrip(): the text without its leading whitespace.
RECURSIVE lstrip(_)
lstrip(text) ==
    IF text # << >> /\ Head(text) \in Whitespace THEN lstrip(Tail(text))
    ELSE text

\* text[a:] and text[:b], for 0 <= a, b <= len(text).
From(text, a) == SubSeq(text, a + 1, Len(text))
UpTo(text, b) == SubSeq(text, 1, b)

SplitPass_takes_any_newline(text, chunk_size) ==
    LET found == rfind(text, "\n", 0, chunk_size)
        split_at == IF found = -1 THEN chunk_size ELSE found
    IN [chunk |-> UpTo(text, split_at), text |-> lstrip(From(text, split_at))]

SplitPass_cuts_after_newline(text, chunk_size) ==
    LET found == rfind(text, "\n", 0, chunk_size)
        split_at == IF found = -1 \/ found < chunk_size \div 2
                    THEN chunk_size ELSE found + 1
    IN [chunk |-> UpTo(text, split_at), text |-> lstrip(From(text, split_at))]

\* One pass of the while loop on a text longer than chunk_size (lines
\* 249-253): the chunk it appends and the text it goes on with.
SplitPass(text, chunk_size) ==
    LET found == rfind(text, "\n", 0, chunk_size)
        split_at == IF found = -1 \/ found < chunk_size \div 2
                    THEN chunk_size ELSE found
    IN [chunk |-> UpTo(text, split_at), text |-> lstrip(From(text, split_at))]

\* The while loop of _split_transcript (lines 245-253).
RECURSIVE SplitLoop(_, _, _)
SplitLoop(text, chunk_size, chunks) ==
    IF text = << >> THEN chunks
    ELSE IF Len(text) <= chunk_size THEN Append(chunks, text)
    ELSE LET pass == SplitPass(text, chunk_size)
         IN SplitLoop(pass.text, chunk_size, Append(chunks, pass.chunk))

\* _split_transcript.
split_transcript(text, chunk_size) ==
    IF Len(text) <= chunk_size THEN <<text>>
    ELSE SplitLoop(text, chunk_size, << >>)

\* No call of _split_transcript has been made.
NoSplit == [pc |-> "idle", text |-> << >>, chunk_size |-> 1, chunks |-> << >>]

\* _split_transcript(text, chunk_size) is called and returns.
SplitTranscript(text, chunk_size) ==
    /\ split.pc = "idle"
    /\ split' = [pc |-> "returned", text |-> text, chunk_size |-> chunk_size,
                 chunks |-> split_transcript(text, chunk_size)]
    /\ UNCHANGED <<now, sessions, heap, turnLog, lastCall, cache, lastFetch,
                   task, gen,
                   helperVars>>

\* The caller drops the list.
SplitForget ==
    /\ split.pc = "returned"
    /\ split' = NoSplit
    /\ UNCHANGED <<now, sessions, heap, turnLog, lastCall, cache, lastFetch,
                   task, gen,
                   helperVars>>

\* No call of _split_transcript is running pass by pass.
NoLoop == [pc |-> "idle", input |-> << >>, chunk_size |-> 1, text |-> << >>,
           chunks |-> << >>]

\* _split_transcript(text, chunk_size) is called: it returns at line 242 or
\* reaches the while loop with an empty list.
SplitEnter(text, chunk_size) ==
    /\ loop.pc = "idle"
    /\ loop' = IF Len(text) <= chunk_size
               THEN [NoLoop EXCEPT !.pc = "returned", !.input = text,
                                   !.chunk_size = chunk_size, !.text = text,
                                   !.chunks = <<text>>]
               ELSE [NoLoop EXCEPT !.pc = "while", !.input = text,
                                   !.chunk_size = chunk_size, !.text = text]
    /\ UNCHANGED <<now, sessions, heap, turnLog, lastCall, cache, lastFetch,
                   task, split, gen, detect, built, message>>

\* The loop test and one pass of the body: the loop ends on an empty text
\* (line 245) or with the last chunk (lines 246-248), or cuts a chunk.
SplitIterate ==
    /\ loop.pc = "while"
    /\ loop' = IF loop.text = << >> THEN [loop EXCEPT !.pc = "returned"]
               ELSE IF Len(loop.text) <= loop.chunk_size
               THEN [loop EXCEPT !.pc = "returned",
                                 !.chunks = Append(@, loop.text)]
               ELSE LET pass == SplitPass(loop.text, loop.chunk_size)
                    IN [loop EXCEPT !.chunks = Append(@, pass.chunk),
                                    !.text = pass.text]
    /\ UNCHANGED <<now, sessions, heap, turnLog, lastCall, cache, lastFetch,
                   task, split, gen, detect, built, message>>

\* The caller drops the list.
SplitLeave ==
    /\ loop.pc = "returned"
    /\ loop' = NoLoop
    /\ UNCHANGED <<now, sessions, heap, turnLog, lastCall, cache, lastFetch,
                   task, split, gen, detect, built, message>>

\* No generate_summary call is running.
NoPrompt == [kind |-> "", part |-> 0, of |-> 0, transcript |-> << >>,
             sections |-> << >>]
IdleGen == [pc |-> "idle", text |-> << >>, chunks |-> << >>,
            prompts |-> << >>, replies |-> << >>, result |-> << >>]

\* The prompts of generate_summary and _chunked_summary: the summary template
\* filled with a transcript (line 155), the section prompt for chunk i of n
\* (line 216), the summary template filled with the joined section summaries
\* (line 229).
SummaryPrompt(text) ==
    [NoPrompt EXCEPT !.kind = "summary", !.transcript = text]
SectionPrompt(i, n, chunk) ==
    [NoPrompt EXCEPT !.kind = "section", !.part = i, !.of = n,
                     !.transcript = chunk]
MergePrompt(merged) ==
    [NoPrompt EXCEPT !.kind = "summary", !.sections = merged]

\* What the model answers to a prompt.
ModelText(prompt) == [tag |-> "text", prompt |-> prompt]

JoinSummaries_newest_first(chunk_summaries) ==
    [i \in DOMAIN chunk_summaries |->
        chunk_summaries[Len(chunk_summaries) + 1 - i]]

\* "\n\n---\n\n".join(chunk_summaries) (line 225).
JoinSummaries(chunk_summaries) == chunk_summaries

\* generate_summary(text) up to its first await of _call_gemini.
GenerateSummary(text) ==
    /\ gen.pc = "idle"
    /\ IF Len(text) <= CHUNK_SIZE_CHARS * 2
       THEN gen' = [IdleGen EXCEPT !.pc = "call", !.text = text,
                                   !.prompts = <<SummaryPrompt(text)>>]
       ELSE LET chunks == split_transcript(text, CHUNK_SIZE_CHARS) IN
            gen' = [IdleGen EXCEPT
                       !.pc = "call", !.text = text, !.chunks = chunks,
                       !.prompts = <<SectionPrompt(1, Len(chunks), chunks[1])>>]
    /\ UNCHANGED <<now, sessions, heap, turnLog, lastCall, cache, lastFetch,
                   task, split,
                   helperVars>>

\* The pending _call_gemini ends with outcome; generate_summary runs on to
\* its next call, to its return or to the exception leaving it.
GenReturn(outcome) ==
    /\ gen.pc = "call"
    /\ LET prompt == gen.prompts[Len(gen.prompts)]
           r == call_gemini(outcome, ModelText(prompt))
           replies == Append(gen.replies, r.text)
           n == Len(gen.chunks)
           i == Len(gen.prompts)
       IN IF r.raised THEN gen' = [gen EXCEPT !.pc = "raised"]
          ELSE IF n = 0 \/ i = n + 1
          THEN gen' = [gen EXCEPT !.pc = "returned", !.replies = replies,
                                  !.result = <<r.text>>]
          ELSE IF i < n
          THEN gen' = [gen EXCEPT
                          !.replies = replies,
                          !.prompts = Append(@, SectionPrompt(i + 1, n,
                                                              gen.chunks[i + 1]))]
          ELSE gen' = [gen EXCEPT
                          !.replies = replies,
                          !.prompts = Append(@, MergePrompt(JoinSummaries(replies)))]
    /\ UNCHANGED <<now, sessions, heap, turnLog, lastCall, cache, lastFetch,
                   task, split,
                   helperVars>>

\* The caller has the result or the exception; the coroutine is gone.
GenForget ==
    /\ gen.pc \in {"returned", "raised"}
    /\ gen' = IdleGen
    /\ UNCHANGED <<now, sessions, heap, turnLog, lastCall, cache, lastFetch,
                   task, split,
                   helperVars>>

\* -------------------------------------------------------------- language.py
\* A message, stripped, is a sequence of words (runs of \w characters) with
\* whitespace between them; the messages given to detect_language_request
\* have at most MaxWords words.
MaxWords == 4
Words == {"summarize", "me", "in", "IN", "hindi", "Hindi", "french", "please",
          "what"}
Messages == UNION {[1 .. k -> Words] : k \in 0 .. MaxWords}

\* str.lower(), and the folding re.IGNORECASE applies to a pattern's literals.
lower(w) ==
    CASE w = "Hindi" -> "hindi"
      [] w = "IN" -> "in"
      [] OTHER -> w

\* The literal words of the patterns that the messages can hold.
PatternVerbs == {"summarize"}
PatternFillers == {"me"}
PatternPolite == {"please"}
PatternMe == {"me"}

\* pattern.search(text) gives the leftmost match, if there is one; Capture is
\* group(1) of the match that starts at the least position of at, as a
\* sequence of 0 or 1: at maps each position where a match starts to the
\* position of the captured word.
Capture(text, at) ==
    IF DOMAIN at = {} THEN << >>
    ELSE LET i == CHOOSE i \in DOMAIN at : \A j \in DOMAIN at : i <= j
         IN <<text[at[i]]>>

\* Pattern 1 (lines 14-18): a verb, an optional filler, "in", the word.
Pattern1(text) ==
    LET n == Len(text)
        plain == {i \in 1 .. n - 2 : /\ lower(text[i]) \in PatternVerbs
                                     /\ lower(text[i + 1]) = "in"}
        filled == {i \in 1 .. n - 3 : /\ lower(text[i]) \in PatternVerbs
                                      /\ lower(text[i + 1]) \in PatternFillers
                                      /\ lower(text[i + 2]) = "in"}
    IN Capture(text, [i \in plain \cup filled |->
                         IF i \in filled THEN i + 3 ELSE i + 2])

\* Pattern 2 (line 20): "in", the word, an optional "please", the end.
Pattern2(text) ==
    LET n == Len(text)
        last == {i \in 1 .. n - 1 : lower(text[i]) = "in" /\ i + 1 = n}
        polite == {i \in 1 .. n - 2 : /\ lower(text[i]) = "in"
                                      /\ i + 2 = n
                                      /\ lower(text[n]) \in PatternPolite}
    IN Capture(text, [i \in last \cup polite |-> i + 1])

\* Pattern 3 (line 22): the word, then "mein" or "me".
Pattern3(text) ==
    LET n == Len(text)
        before == {i \in 1 .. n - 1 : lower(text[i + 1]) \in PatternMe}
    IN Capture(text, [i \in before |-> i])

\* Pattern 4 (line 24): the word is the whole message.
Pattern4(text) == IF Len(text) = 1 THEN <<text[1]>> ELSE << >>

\* _LANGUAGE_PATTERNS: what each pattern captures, in the order of the list.
LANGUAGE_PATTERNS(text) ==
    <<Pattern1(text), Pattern2(text), Pattern3(text), Pattern4(text)>>

DetectLoop_returns_at_first_match(captured, k) ==
    IF \A j \in DOMAIN captured : captured[j] = << >> THEN ""
    ELSE LET j == CHOOSE j \in DOMAIN captured :
                      /\ captured[j] # << >>
                      /\ \A m \in 1 .. j - 1 : captured[m] = << >>
             word == lower(captured[j][1])
         IN IF word \in SUPPORTED_LANGUAGES THEN word ELSE ""

\* The for loop of detect_language_request from pattern k on (lines 35-41);
\* "" stands for None.
RECURSIVE DetectLoop(_, _)
DetectLoop(captured, k) ==
    IF k > Len(captured) THEN ""
    ELSE IF captured[k] # << >> /\ lower(captured[k][1]) \in SUPPORTED_LANGUAGES
    THEN lower(captured[k][1])
    ELSE DetectLoop(captured, k + 1)

detect_language_request(text) == DetectLoop(LANGUAGE_PATTERNS(text), 1)

\* No call of detect_language_request has been made.
NoDetect == [pc |-> "idle", text |-> << >>, ret |-> ""]

\* detect_language_request(text) is called and returns.
DetectLanguageRequest(text) ==
    /\ detect.pc = "idle"
    /\ detect' = [pc |-> "returned", text |-> text,
                  ret |-> detect_language_request(text)]
    /\ UNCHANGED <<now, sessions, heap, turnLog, lastCall, cache, lastFetch,
                   task, split, gen, built, message, loop>>

\* The caller has used the result.
DetectForget ==
    /\ detect.pc = "returned"
    /\ detect' = NoDetect
    /\ UNCHANGED <<now, sessions, heap, turnLog, lastCall, cache, lastFetch,
                   task, split, gen, built, message, loop>>

\* ------------------------------------------- youtube.py: the transcript text
\* config.py, scaled down: a transcript text over this length is cut.
MAX_TRANSCRIPT_CHARS == 3
\* "\n\n[... transcript truncated due to length ...]" (line 157).
TruncationMarker == <<"\n", "\n", "[... transcript truncated due to length ...]">>

truncate_from_the_limit(full_text) ==
    IF Len(full_text) >= MAX_TRANSCRIPT_CHARS
    THEN UpTo(full_text, MAX_TRANSCRIPT_CHARS) \o TruncationMarker
    ELSE full_text

\* Lines 156-157 of get_transcript, on the text the segments were joined to.
truncate(full_text) ==
    IF Len(full_text) > MAX_TRANSCRIPT_CHARS
    THEN UpTo(full_text, MAX_TRANSCRIPT_CHARS) \o TruncationMarker
    ELSE full_text

\* No transcript text has been built.
NoBuilt == [pc |-> "idle", full_text |-> << >>, transcript_text |-> << >>]

\* get_transcript has joined the segments to full_text and runs lines 156-161.
BuildTranscriptText(full_text) ==
    /\ built.pc = "idle"
    /\ built' = [pc |-> "returned", full_text |-> full_text,
                 transcript_text |-> truncate(full_text)]
    /\ UNCHANGED <<now, sessions, heap, turnLog, lastCall, cache, lastFetch,
                   task, split, gen, detect, message, loop>>

\* The caller has stored the text.
BuildForget ==
    /\ built.pc = "returned"
    /\ built' = NoBuilt
    /\ UNCHANGED <<now, sessions, heap, turnLog, lastCall, cache, lastFetch,
                   task, split, gen, detect, message, loop>>

\* ------------------------------------------------- utils.py: split_message
\* The limits split_message is called with: 1 .. MaxLimit.
MaxLimit == 3

\* str.rfind(sub, start, end): the highest 0-based index at which sub stands
\* within text[start:end], or -1.
rfind_sub(text, sub, start, end) ==
    LET stop == IF end < Len(text) THEN end ELSE Len(text)
        I == {i \in start .. stop - Len(sub) :
                  SubSeq(text, i + 1, i + Len(sub)) = sub}
    IN IF I = {} THEN -1 ELSE CHOOSE i \in I : \A j \in I : j <= i

rstrip_drops_a_character(text) ==
    IF text = << >> THEN text ELSE UpTo(text, Len(text) - 1)

\* str.rstrip(): the text without its trailing whitespace.
RECURSIVE rstrip(_)
rstrip(text) ==
    IF text # << >> /\ text[Len(text)] \in Whitespace
    THEN rstrip(UpTo(text, Len(text) - 1))
    ELSE text

\* The while loop of split_message (lines 55-70).
RECURSIVE MessageLoop(_, _, _)
MessageLoop(text, max_length, chunks) ==
    IF text = << >> THEN chunks
    ELSE IF Len(text) <= max_length THEN Append(chunks, text)
    ELSE LET paragraph == rfind_sub(text, <<"\n", "\n">>, 0, max_length)
             line == rfind_sub(text, <<"\n">>, 0, max_length)
             space == rfind_sub(text, <<" ">>, 0, max_length)
             split_at == IF paragraph # -1 THEN paragraph
                         ELSE IF line # -1 THEN line
                         ELSE IF space # -1 THEN space
                         ELSE max_length
         IN MessageLoop(lstrip(From(text, split_at)), max_length,
                        Append(chunks, rstrip(UpTo(text, split_at))))

\* split_message.
split_message(text, max_length) ==
    IF Len(text) <= max_length THEN <<text>>
    ELSE MessageLoop(text, max_length, << >>)

\* No call of split_message has been made.
NoMessage == [pc |-> "idle", text |-> << >>, max_length |-> 1, chunks |-> << >>]

\* split_message(text, max_length) is called and returns.
SplitMessage(text, max_length) ==
    /\ message.pc = "idle"
    /\ message' = [pc |-> "returned", text |-> text, max_length |-> max_length,
                   chunks |-> split_message(text, max_length)]
    /\ UNCHANGED <<now, sessions, heap, turnLog, lastCall, cache, lastFetch,
                   task, split, gen, detect, built, loop>>

\* The caller has sent the chunks.
MessageForget ==
    /\ message.pc = "returned"
    /\ message' = NoMessage
    /\ UNCHANGED <<now, sessions, heap, turnLog, lastCall, cache, lastFetch,
                   task, split, gen, detect, built, loop>>

\* ------------------------------------------------- the handlers' steps
\* Coroutine t is inside get_transcript, a plain function that calls the
\* provider and returns only with its answer: the thread runs nothing else.
InProviderCall(t) == task[t].pc = "fetching"

\* A step of coroutine t: its new locals, the store it leaves, and the frame.
\* The event loop runs it only when no other coroutine holds the thread.
Step(t, tk, st, log) ==
    /\ \A t2 \in Tasks \ {t} : ~InProviderCall(t2)
    /\ task' = [task EXCEPT ![t] = tk]
    /\ Commit(st, log, Held(task'))
    /\ UNCHANGED <<now, lastCall, split, gen,
                   helperVars>>

\* session.is_processing = b on the object the coroutine holds, if any.
SetFlag(st, ref, b) ==
    IF ref = None THEN st ELSE [st EXCEPT !.heap[ref].is_processing = b]

\* Request t arrives; requests are numbered as they arrive.
Arrives(t) ==
    /\ task[t].pc = "idle"
    /\ \A t2 \in Tasks : t2 < t => task[t2].pc # "idle"

\* handle_message and handle_youtube_link up to the first await (line 117),
\* for the request me.
LinkArrives(t, me) ==
    /\ Arrives(t)
    /\ LET c == cleanup_expired_sessions(Store, now)
           g == get_session(c.st, me.user, now)
       IN IF g.ret # None /\ g.st.heap[g.ret].is_processing
          THEN Step(t, Finish(me, ERROR_RATE_LIMIT, NoText), g.st, turnLog)
          ELSE Step(t, [me EXCEPT !.pc = "wait1", !.session = g.ret],
                    g.st, turnLog)
    /\ UNCHANGED <<cache, lastFetch>>

\* A message arrives whose text holds the link of video v and for which
\* detect_language_request(text) = l.
ReceiveLink(t, u, v, l) ==
    LinkArrives(t, [IdleTask EXCEPT !.kind = "link", !.user = u, !.video = v,
                                    !.lang = l])

\* The same with the words of the message: text holds the link of video v
\* as the word "link", which no pattern takes for a language.
ReceiveLinkMessage(t, u, v, text) ==
    LinkArrives(t, [IdleTask EXCEPT !.kind = "link", !.user = u, !.video = v,
                                    !.lang = detect_language_request(text),
                                    !.text = text])

\* Lines 117-135: the two sends before the fetch end (sent says how), with
\* get_video_info between them, and get_transcript is entered.
LinkCall(t, sent) ==
    /\ task[t].pc = "wait1"
    /\ LET tk == task[t] IN
       CASE sent = "reply_failed" ->
              \* line 117 raises outside the try: the exception leaves the handler
              Step(t, Finish(tk, ERROR_PROCESSING, NoText), Store, turnLog)
         [] sent = "edit_failed" ->
              \* line 127 raises inside the try: lines 190-197
              Step(t, Finish(tk, ERROR_PROCESSING, NoText),
                   SetFlag(Store, tk.session, FALSE), turnLog)
         [] OTHER ->
              Step(t, [tk EXCEPT !.pc = "fetching"], Store, turnLog)
    /\ UNCHANGED <<cache, lastFetch>>

LinkFetch_keeps_language(t, prov) ==
    /\ task[t].pc = "fetching"
    /\ LET tk == task[t]
           r == get_transcript(cache, tk.video, prov, now)
       IN /\ cache' = r.cache
          /\ lastFetch' = [video |-> tk.video,
                           provider_calls |-> r.provider_calls,
                           error_type |-> r.error_type, data |-> r.data]
          /\ IF r.error_type # ""
             THEN Step(t, [tk EXCEPT !.pc = "report", !.fetched = TRUE,
                                     !.error_type = r.error_type],
                       Store, turnLog)
             ELSE LET c == create_session(Store, tk.user, t, tk.video,
                                          r.data[1].transcript_text, now)
                      old == sessions[tk.user]
                      st1 == IF tk.lang # ""
                             THEN [c.st EXCEPT !.heap[c.ret].language = tk.lang]
                             ELSE IF old # None
                             THEN [c.st EXCEPT !.heap[c.ret].language =
                                                   heap[old].language]
                             ELSE c.st
                      st2 == SetFlag(st1, c.ret, TRUE)
                  IN Step(t, [tk EXCEPT !.pc = "edit2", !.fetched = TRUE,
                                        !.session = c.ret],
                          st2, turnLog)

\* Lines 135-165: get_transcript returns or raises with the provider's answer
\* prov, then create_session and the lines up to the await of line 161.
LinkFetch(t, prov) ==
    /\ task[t].pc = "fetching"
    /\ LET tk == task[t]
           r == get_transcript(cache, tk.video, prov, now)
       IN /\ cache' = r.cache
          /\ lastFetch' = [video |-> tk.video,
                           provider_calls |-> r.provider_calls,
                           error_type |-> r.error_type, data |-> r.data]
          /\ IF r.error_type # ""
             THEN Step(t, [tk EXCEPT !.pc = "report", !.fetched = TRUE,
                                     !.error_type = r.error_type],
                       Store, turnLog)
             ELSE LET c == create_session(Store, tk.user, t, tk.video,
                                          r.data[1].transcript_text, now)
                      st1 == IF tk.lang # ""
                             THEN [c.st EXCEPT !.heap[c.ret].language = tk.lang]
                             ELSE c.st
                      st2 == SetFlag(st1, c.ret, TRUE)
                  IN Step(t, [tk EXCEPT !.pc = "edit2", !.fetched = TRUE,
                                        !.session = c.ret],
                          st2, turnLog)

LinkReport_drops_the_session(t, sent) ==
    /\ task[t].pc = "report"
    /\ Step(t, Finish(task[t], ERROR_PROCESSING, NoText),
            [Store EXCEPT !.sessions[task[t].user] = None], turnLog)
    /\ UNCHANGED <<cache, lastFetch>>

\* Lines 136-143: the await that reports a TranscriptError.
LinkReport(t, sent) ==
    /\ task[t].pc = "report"
    /\ LET tk == task[t]
           error_msg == IF tk.error_type \in {"disabled", "not_found"}
                        THEN ERROR_NO_TRANSCRIPT
                        ELSE IF tk.error_type = "unavailable"
                             THEN ERROR_VIDEO_NOT_FOUND
                             ELSE ERROR_PROCESSING
       IN IF sent
          THEN Step(t, Finish(tk, error_msg, NoText), Store, turnLog)
          ELSE Step(t, Finish(tk, ERROR_PROCESSING, NoText),
                    SetFlag(Store, tk.session, FALSE), turnLog)
    /\ UNCHANGED <<cache, lastFetch>>

\* Lines 161-172: the await of line 161 ends and generate_summary is called.
LinkGenerate(t, sent) ==
    /\ task[t].pc = "edit2"
    /\ LET tk == task[t] s == heap[tk.session] IN
       IF sent
       THEN Step(t, [tk EXCEPT !.pc = "model", !.op = "summary",
                               !.genlang = s.language,
                               !.left = SummaryCalls(s.transcript_text),
                               !.calls = 1],
                 Store, turnLog)
       ELSE Step(t, Finish(tk, ERROR_PROCESSING, NoText),
                 SetFlag(Store, tk.session, FALSE), turnLog)
    /\ UNCHANGED <<cache, lastFetch>>

ReceiveText_language_before_check(t, u, l, short, q) ==
    /\ Arrives(t)
    /\ LET c == cleanup_expired_sessions(Store, now)
           g == get_session(c.st, u, now)
           me == [IdleTask EXCEPT !.kind = "text", !.user = u, !.lang = l,
                                  !.short = short, !.q = q]
           st1 == IF l # "" /\ g.ret # None
                  THEN [g.st EXCEPT !.heap[g.ret].language = l]
                  ELSE g.st
       IN IF g.ret = None
          THEN Step(t, Finish(me, ERROR_NO_SESSION, NoText), g.st, turnLog)
          ELSE IF g.st.heap[g.ret].is_processing
          THEN Step(t, Finish(me, ERROR_RATE_LIMIT, NoText), st1, turnLog)
          ELSE Step(t, [me EXCEPT !.pc = "ack", !.session = g.ret,
                                  !.op = IF l # "" /\ short
                                         THEN "resummary" ELSE "qa"],
                    SetFlag(st1, g.ret, TRUE), turnLog)
    /\ UNCHANGED <<cache, lastFetch>>

\* handle_message and handle_question up to the await of line 224 or 248,
\* for the request me.
TextArrives(t, me) ==
    /\ Arrives(t)
    /\ LET c == cleanup_expired_sessions(Store, now)
           g == get_session(c.st, me.user, now)
           l == me.lang
           short == me.short
       IN IF g.ret = None
          THEN Step(t, Finish(me, ERROR_NO_SESSION, NoText), g.st, turnLog)
          ELSE IF g.st.heap[g.ret].is_processing
          THEN Step(t, Finish(me, ERROR_RATE_LIMIT, NoText), g.st, turnLog)
          ELSE LET st1 == IF l # ""
                          THEN [g.st EXCEPT !.heap[g.ret].language = l]
                          ELSE g.st
               IN Step(t, [me EXCEPT !.pc = "ack", !.session = g.ret,
                                     !.op = IF l # "" /\ short
                                            THEN "resummary" ELSE "qa"],
                       SetFlag(st1, g.ret, TRUE), turnLog)
    /\ UNCHANGED <<cache, lastFetch>>

\* A message with no link arrives: detect_language_request(text) = l, short
\* is len(text.split()) <= 4, q is the question it asks.
ReceiveText(t, u, l, short, q) ==
    TextArrives(t, [IdleTask EXCEPT !.kind = "text", !.user = u, !.lang = l,
                                    !.short = short, !.q = q])

ReceiveTextMessage_short_below_four(t, u, text, q) ==
    TextArrives(t, [IdleTask EXCEPT !.kind = "text", !.user = u,
                                    !.lang = detect_language_request(text),
                                    !.short = Len(text) < 4,
                                    !.q = q, !.text = text])

\* The same with the words of the message.
ReceiveTextMessage(t, u, text, q) ==
    TextArrives(t, [IdleTask EXCEPT !.kind = "text", !.user = u,
                                    !.lang = detect_language_request(text),
                                    !.short = Len(text) <= 4,
                                    !.q = q, !.text = text])

ReceiveCommand_without_busy_check(t, u, kind) ==
    /\ Arrives(t)
    /\ LET g == get_session(Store, u, now)
           me == [IdleTask EXCEPT !.kind = kind, !.user = u]
       IN IF g.ret = None
          THEN Step(t, Finish(me, ERROR_NO_SESSION, NoText), g.st, turnLog)
          ELSE Step(t, [me EXCEPT !.pc = "ack", !.session = g.ret, !.op = kind],
                    SetFlag(g.st, g.ret, TRUE), turnLog)
    /\ UNCHANGED <<cache, lastFetch>>

\* deepdive_command and actionpoints_command up to the await of line 303/337.
ReceiveCommand(t, u, kind) ==
    /\ Arrives(t)
    /\ LET g == get_session(Store, u, now)
           me == [IdleTask EXCEPT !.kind = kind, !.user = u]
       IN IF g.ret = None
          THEN Step(t, Finish(me, ERROR_NO_SESSION, NoText), g.st, turnLog)
          ELSE IF g.st.heap[g.ret].is_processing
          THEN Step(t, Finish(me, ERROR_RATE_LIMIT, NoText), g.st, turnLog)
          ELSE Step(t, [me EXCEPT !.pc = "ack", !.session = g.ret, !.op = kind],
                    SetFlag(g.st, g.ret, TRUE), turnLog)
    /\ UNCHANGED <<cache, lastFetch>>

\* summary_command.
ReceiveSummary(t, u) ==
    /\ Arrives(t)
    /\ LET g == get_session(Store, u, now)
           me == [IdleTask EXCEPT !.kind = "summary", !.user = u]
       IN IF g.ret = None \/ g.st.heap[g.ret].summary = NoText
          THEN Step(t, Finish(me, ERROR_NO_SESSION, NoText), g.st, turnLog)
          ELSE Step(t, Finish(me, "result", g.st.heap[g.ret].summary),
                    g.st, turnLog)
    /\ UNCHANGED <<cache, lastFetch>>

ReceiveLanguage_accepts_any_code(t, u, arg) ==
    /\ Arrives(t)
    /\ LET g == get_session(Store, u, now)
           me == [IdleTask EXCEPT !.kind = "language", !.user = u, !.lang = arg]
       IN IF arg = ""
          THEN Step(t, Finish(me, "usage", NoText), Store, turnLog)
          ELSE IF g.ret # None
          THEN Step(t, Finish(me, "language_set", NoText),
                    [g.st EXCEPT !.heap[g.ret].language = arg], turnLog)
          ELSE Step(t, Finish(me, "language_noted", NoText), g.st, turnLog)
    /\ UNCHANGED <<cache, lastFetch>>

\* language_command: arg is args[0].lower(), or "" when there are no args.
ReceiveLanguage(t, u, arg) ==
    /\ Arrives(t)
    /\ LET g == get_session(Store, u, now)
           me == [IdleTask EXCEPT !.kind = "language", !.user = u, !.lang = arg]
       IN IF arg = ""
          THEN Step(t, Finish(me, "usage", NoText), Store, turnLog)
          ELSE IF arg \notin SUPPORTED_LANGUAGES
          THEN Step(t, Finish(me, "unsupported", NoText), Store, turnLog)
          ELSE IF g.ret # None
          THEN Step(t, Finish(me, "language_set", NoText),
                    [g.st EXCEPT !.heap[g.ret].language = arg], turnLog)
          ELSE Step(t, Finish(me, "language_noted", NoText), g.st, turnLog)
    /\ UNCHANGED <<cache, lastFetch>>

\* The await after is_processing = True (lines 224, 248, 303, 337) ends; it
\* stands before the try, so when it raises the exception leaves the handler.
Start(t, sent) ==
    /\ task[t].pc = "ack"
    /\ LET tk == task[t] s == heap[tk.session] IN
       IF sent
       THEN Step(t, [tk EXCEPT !.pc = "model", !.genlang = s.language,
                               !.left = IF tk.op = "resummary"
                                        THEN SummaryCalls(s.transcript_text)
                                        ELSE 1,
                               !.calls = 1],
                 Store, turnLog)
       ELSE Step(t, Finish(tk, ERROR_PROCESSING, NoText), Store, turnLog)
    /\ UNCHANGED <<cache, lastFetch>>

AnalysisText(op, v, l) == [tag |-> op, video |-> v, lang |-> l, q |-> 0]

\* The pending model call of coroutine t ends with outcome, and the handler
\* runs on to its next await or to its end.
ModelReturn(t, outcome) ==
    /\ task[t].pc = "model"
    /\ LET tk == [task[t] EXCEPT !.outcome = outcome]
           s == heap[tk.session]
           r == IF tk.op = "qa"
                THEN answer_question(outcome,
                                     AnswerText(s.video_id, tk.genlang, tk.q))
                ELSE IF tk.op \in {"summary", "resummary"}
                THEN call_gemini(outcome, SummaryText(s.video_id, tk.genlang))
                ELSE call_gemini(outcome,
                                 AnalysisText(tk.op, s.video_id, tk.genlang))
           sending == [tk EXCEPT !.pc = "send", !.shown = r.text]
       IN IF r.raised
          THEN \* the except clause of the handler (lines 190, 240, 266, 317, 351)
               Step(t, Finish(tk, ERROR_PROCESSING, NoText),
                    SetFlag(Store, tk.session, FALSE), turnLog)
          ELSE IF tk.left > 1
          THEN \* _chunked_summary: the next chunk call, or the merge call
               Step(t, [tk EXCEPT !.left = @ - 1, !.calls = @ + 1],
                    Store, turnLog)
          ELSE CASE tk.op = "summary" ->
                      \* lines 174-175
                      Step(t, sending,
                           set_session_summary(SetFlag(Store, tk.session, FALSE),
                                               tk.user, r.text, now),
                           turnLog)
                 [] tk.op = "resummary" ->
                      \* lines 234-235
                      Step(t, sending,
                           SetFlag(set_session_summary(Store, tk.user, r.text,
                                                       now),
                                   tk.session, FALSE),
                           turnLog)
                 [] tk.op = "qa" ->
                      \* lines 259-260
                      Step(t, sending,
                           SetFlag([Store EXCEPT !.heap[tk.session] =
                                        add_chat_turn(@, QuestionText(tk.q),
                                                      r.text, now)],
                                   tk.session, FALSE),
                           [turnLog EXCEPT ![tk.session] =
                                Append(@, <<QuestionText(tk.q), r.text>>)])
                 [] OTHER ->
                      \* lines 313, 347
                      Step(t, sending, SetFlag(Store, tk.session, FALSE),
                           turnLog)
    /\ UNCHANGED <<cache, lastFetch>>

\* The sends of the result (delete, reply_text) end; when one raises, the
\* except clause of the handler runs.
Send(t, sent) ==
    /\ task[t].pc = "send"
    /\ LET tk == task[t] IN
       IF sent
       THEN Step(t, Finish(tk, "result", tk.shown), Store, turnLog)
       ELSE Step(t, Finish(tk, ERROR_PROCESSING, NoText),
                 SetFlag(Store, tk.session, FALSE), turnLog)
    /\ UNCHANGED <<cache, lastFetch>>

\* What the provider answers to the handlers' fetches.
HandlerReplies(v) ==
    {prov \in ProviderReplies(v) :
        \/ prov.list = "disabled"
        \/ prov.list = "ok" /\ prov.fetch = "ok"
                            /\ prov.listing = <<Transcript("en", FALSE)>>}

\* The users who write to the bot.
Senders == {1}

\* detect_language_request on the messages sent: no language, or "hindi".
Detected == {"", "hindi"}

\* ----------------------------------------------------------- specifications
\* The process has just started: both dictionaries are empty, no request yet.
Init ==
    /\ now = 0
    /\ sessions = [u \in Users |-> None]
    /\ heap = << >>
    /\ turnLog = << >>
    /\ lastCall = [op |-> "", user |-> None, ret |-> 0, dropped |-> << >>]
    /\ cache = << >>
    /\ lastFetch = [video |-> None, provider_calls |-> 0, error_type |-> "",
                    data |-> << >>]
    /\ task = [t \in Tasks |-> IdleTask]
    /\ split = NoSplit
    /\ gen = IdleGen
    /\ detect = NoDetect
    /\ built = NoBuilt
    /\ message = NoMessage
    /\ loop = NoLoop

\* The session store under every call of its API, for two users.
StoreNext ==
    \/ \E u \in Users : StoreGet(u)
    \/ \E u \in Users, v \in Videos : \E text \in TranscriptTexts(v) :
           StoreCreate(u, v, text)
    \/ \E u \in Users, l \in SUPPORTED_LANGUAGES : StoreSetLanguage(u, l)
    \/ \E u \in Users : StoreSetSummary(u)
    \/ \E u \in Users, b \in BOOLEAN : StoreSetProcessing(u, b)
    \/ StoreCleanup
    \/ StoreTick

SpecStore == Init /\ [][StoreNext]_vars

\* One user's session through every operation of the store.
SessionNext ==
    \/ StoreGet(1)
    \/ \E v \in Videos : \E text \in TranscriptTexts(v) : StoreCreate(1, v, text)
    \/ \E l \in SUPPORTED_LANGUAGES : StoreSetLanguage(1, l)
    \/ StoreSetSummary(1)
    \/ \E b \in BOOLEAN : StoreSetProcessing(1, b)
    \/ \E q \in Questions : StoreAddChatTurn(1, q)
    \/ StoreTick

SpecSession == Init /\ [][SessionNext]_vars


\* The transcript cache under calls of get_transcript, with the provider
\* answering in every way it can.
CacheNext ==
    \/ \E v \in Videos : \E prov \in ProviderReplies(v) : CacheGetTranscript(v, prov)
    \/ StoreTick

SpecCache == Init /\ [][CacheNext]_vars


\* Two users write to the bot: links to video 1, questions and /deepdive,
\* with every send to the user succeeding.
UsersNext ==
    \/ \E t \in Tasks, u \in Users : ReceiveLink(t, u, 1, "")
    \/ \E t \in Tasks, u \in Users : ReceiveText(t, u, "", FALSE, 1)
    \/ \E t \in Tasks, u \in Users : ReceiveCommand(t, u, "deepdive")
    \/ \E t \in Tasks : LinkCall(t, "ok")
    \/ \E t \in Tasks : \E prov \in HandlerReplies(task[t].video) :
           LinkFetch(t, prov)
    \/ \E t \in Tasks : LinkReport(t, TRUE)
    \/ \E t \in Tasks : LinkGenerate(t, TRUE)
    \/ \E t \in Tasks : Start(t, TRUE)
    \/ \E t \in Tasks, outcome \in {"ok", "error"} : ModelReturn(t, outcome)
    \/ \E t \in Tasks : Send(t, TRUE)
    \/ StoreTick

SpecUsers == Init /\ [][UsersNext]_vars


\* The messages of one user, word by word: links alone, with a request for
\* a supported language and with one for an unsupported language; texts that
\* name no language, a supported one in at most 4 words and in more, and an
\* unsupported one where a pattern matches.
LinkMessages ==
    {<<"link">>, <<"link", "summarize", "in", "hindi">>,
     <<"link", "in", "french">>}
TextMessages ==
    {<<"what">>, <<"hindi">>, <<"summarize", "in", "french">>,
     <<"please", "summarize", "in", "hindi">>,
     <<"what", "please", "summarize", "in", "hindi">>}

\* The bot under these messages and /language, the sends succeeding.
LanguageNext ==
    \/ \E t \in Tasks, text \in LinkMessages : ReceiveLinkMessage(t, 1, 1, text)
    \/ \E t \in Tasks, text \in TextMessages : ReceiveTextMessage(t, 1, text, 1)
    \/ \E t \in Tasks, arg \in {"", "english", "hindi", "french"} :
           ReceiveLanguage(t, 1, arg)
    \/ \E t \in Tasks : LinkCall(t, "ok")
    \/ \E t \in Tasks : \E prov \in HandlerReplies(task[t].video) :
           LinkFetch(t, prov)
    \/ \E t \in Tasks : LinkReport(t, TRUE)
    \/ \E t \in Tasks : LinkGenerate(t, TRUE)
    \/ \E t \in Tasks : Start(t, TRUE)
    \/ \E t \in Tasks, outcome \in {"ok", "error"} : ModelReturn(t, outcome)
    \/ \E t \in Tasks : Send(t, TRUE)
    \/ StoreTick

SpecLanguage == Init /\ [][LanguageNext]_vars


\* The splitter pass by pass on every text and chunk size; a started call is
\* run on, as the loop has no await. The splitter tells a newline, other
\* whitespace and any other character apart: one other character is enough.
LoopTexts == UNION {[1 .. k -> Chars \ {"b"}] : k \in 0 .. MaxLen}
LoopNext ==
    \/ /\ loop.pc = "idle"
       /\ \E text \in LoopTexts, chunk_size \in 1 .. MaxChunkSize :
              SplitEnter(text, chunk_size)
    \/ SplitIterate
    \/ SplitLeave

SpecLoop == Init /\ [][LoopNext]_vars /\ WF_vars(SplitIterate)

\* The splitter on every text and chunk size.
SplitNext ==
    \/ /\ split.pc = "idle"
       /\ \E text \in Texts, chunk_size \in 1 .. MaxChunkSize :
              SplitTranscript(text, chunk_size)
    \/ SplitForget

SpecSplit == Init /\ [][SplitNext]_vars


\* generate_summary on every text, the model answering in every way.
SummaryNext ==
    \/ /\ gen.pc = "idle"
       /\ \E text \in Texts : GenerateSummary(text)
    \/ \E outcome \in {"ok", "empty", "error"} : GenReturn(outcome)
    \/ GenForget

SpecSummary == Init /\ [][SummaryNext]_vars


\* generate_summary on every text, the model answering with a text, with
\* nothing or with whitespace.
ResponsesNext ==
    \/ /\ gen.pc = "idle"
       /\ \E text \in Texts : GenerateSummary(text)
    \/ \E outcome \in {"ok", "empty", "blank"} : GenReturn(outcome)
    \/ GenForget

SpecResponses == Init /\ [][ResponsesNext]_vars


\* detect_language_request on every message.
DetectNext ==
    \/ /\ detect.pc = "idle"
       /\ \E text \in Messages : DetectLanguageRequest(text)
    \/ DetectForget

SpecDetect == Init /\ [][DetectNext]_vars


\* The transcript text of get_transcript for every joined text.
BuildNext ==
    \/ /\ built.pc = "idle"
       /\ \E full_text \in Texts : BuildTranscriptText(full_text)
    \/ BuildForget

SpecBuild == Init /\ [][BuildNext]_vars


\* split_message on every text and limit.
MessageNext ==
    \/ /\ message.pc = "idle"
       /\ \E text \in Texts, max_length \in 1 .. MaxLimit :
              SplitMessage(text, max_length)
    \/ MessageForget

SpecMessage == Init /\ [][MessageNext]_vars


\* The bot: requests arrive, the awaits of the handlers end, time passes.
Next ==
    \/ \E t \in Tasks, u \in Senders, v \in Videos, l \in Detected :
           ReceiveLink(t, u, v, l)
    \/ \E t \in Tasks, u \in Senders, l \in Detected, short \in BOOLEAN :
           ReceiveText(t, u, l, short, 1)
    \/ \E t \in Tasks, u \in Senders, kind \in {"deepdive", "actionpoints"} :
           ReceiveCommand(t, u, kind)
    \/ \E t \in Tasks, u \in Senders : ReceiveSummary(t, u)
    \/ \E t \in Tasks, u \in Senders, arg \in {"", "hindi", "french"} :
           ReceiveLanguage(t, u, arg)
    \/ \E t \in Tasks, sent \in {"ok", "reply_failed", "edit_failed"} :
           LinkCall(t, sent)
    \/ \E t \in Tasks : \E prov \in HandlerReplies(task[t].video) :
           LinkFetch(t, prov)
    \/ \E t \in Tasks, sent \in BOOLEAN : LinkReport(t, sent)
    \/ \E t \in Tasks, sent \in BOOLEAN : LinkGenerate(t, sent)
    \/ \E t \in Tasks, sent \in BOOLEAN : Start(t, sent)
    \/ \E t \in Tasks, outcome \in {"ok", "empty", "error"} : ModelReturn(t, outcome)
    \/ \E t \in Tasks, sent \in BOOLEAN : Send(t, sent)
    \/ StoreTick

Spec == Init /\ [][Next]_vars

\* ------------------------------------------------------------------ claims
\* A request of user u is between its arrival and its end.
InFlight(t) == task[t].pc \notin {"idle", "done"}
\* Coroutine t waits for the external model.
AwaitsModel(t) == task[t].pc = "model"
\* The session a lookup for u would return has its busy flag set.
Busy(u) ==
    /\ sessions[u] # None
    /\ now - heap[sessions[u]].last_activity <= SESSION_TTL_SECONDS
    /\ heap[sessions[u]].is_processing
\* Request t arrives in this step.
Arriving(t) == task[t].pc = "idle" /\ task'[t].pc # "idle"
LongRunning == {"link", "text", "deepdive", "actionpoints"}

\* C1: for every user and every interleaving of the user's requests at the
\* awaits, at most one long-running operation (a model call for a summary, a
\* re-summary, a deep dive, action points or an answer) is in flight.
C1_OneOperationPerUser ==
    \A u \in Users :
        Cardinality({t \in Tasks : task[t].user = u /\ AwaitsModel(t)}) <= 1

\* C2: once no request of a user is in flight the user's session has
\* is_processing = false: every request that set the flag has reset it on
\* whatever path it ended.
C2_FlagResetOnEveryExit ==
    \A u \in Users :
        (\A t \in Tasks : InFlight(t) => task[t].user # u) =>
            (sessions[u] # None => ~heap[sessions[u]].is_processing)

\* C3: a video link, a question, /deepdive or /actionpoints that arrives while
\* the user's session is busy ends at once with the busy message, having made
\* no transcript fetch and no model call; and a request that has ended does
\* nothing later.
C3_BusyRejectedAtOnce ==
    [][\A t \in Tasks :
          /\ (Arriving(t) /\ task'[t].kind \in LongRunning
                          /\ Busy(task'[t].user)) =>
                 /\ task'[t].pc = "done"
                 /\ task'[t].reply = ERROR_RATE_LIMIT
                 /\ task'[t].calls = 0
                 /\ ~task'[t].fetched
                 /\ task'[t].op = ""
                 /\ <<cache, lastFetch>>' = <<cache, lastFetch>>
          /\ task[t].pc = "done" => task'[t] = task[t]]_vars

\* A request was turned away as busy while another waits for the model.
C3_Witness ==
    \E t, t2 \in Tasks :
        /\ task[t].pc = "done" /\ task[t].reply = ERROR_RATE_LIMIT
        /\ task[t].kind \in LongRunning
        /\ AwaitsModel(t2) /\ task[t2].user = task[t].user

\* Request t is turned away as busy in this step.
Rejected(t) ==
    Arriving(t) /\ task'[t].pc = "done" /\ task'[t].reply = ERROR_RATE_LIMIT

\* C4 as stated: a request rejected as busy leaves every field of the user's
\* session unchanged, last_activity included.
C4_Original_RejectionChangesNothing ==
    [][\A t \in Tasks : Rejected(t) =>
          LET u == task'[t].user IN
          /\ sessions'[u] = sessions[u]
          /\ heap'[sessions[u]] = heap[sessions[u]]]_vars

\* C4 amended: a request rejected as busy leaves the user's session in the
\* store with every field unchanged except last_activity, which the lookup
\* sets to the current time.
C4_RejectionOnlyTouches ==
    [][\A t \in Tasks : Rejected(t) =>
          LET u == task'[t].user IN
          /\ sessions'[u] = sessions[u]
          /\ heap'[sessions[u]] = [heap[sessions[u]] EXCEPT !.last_activity = now]
          /\ heap'[sessions[u]].is_processing]_vars

\* A request was turned away some time after the busy session was last used.
C4_Witness ==
    \E t, t2 \in Tasks :
        /\ task[t].pc = "done" /\ task[t].reply = ERROR_RATE_LIMIT
        /\ InFlight(t2) /\ task[t2].session = sessions[task[t].user]
        /\ heap[task[t2].session].last_activity = now
        /\ now > 0

\* The model call of coroutine t ends in an error in this step.
ModelCallFails(t) ==
    /\ AwaitsModel(t)
    /\ task'[t] # task[t]
    /\ task'[t].outcome = "error"

\* C6: a long-running request whose model call fails resets is_processing and
\* stores no result: the summary and the chat history of its session are
\* what they were before.
C6_FailedCallStoresNothing ==
    [][\A t \in Tasks : ModelCallFails(t) =>
          LET id == task[t].session IN
          id \in DOMAIN heap' =>
              /\ heap'[id].summary = heap[id].summary
              /\ heap'[id].chat_history = heap[id].chat_history
              /\ ~heap'[id].is_processing]_vars

\* C7: when the model call errors, the function that made it raises instead
\* of returning a text, and the handler ends by sending the generic failure
\* message.
C7_ModelErrorRaises ==
    [][\A t \in Tasks : ModelCallFails(t) =>
          /\ task'[t].pc = "done"
          /\ task'[t].reply = ERROR_PROCESSING]_vars

\* C5: a session is expired exactly when now - last_activity > SESSION_TTL
\* (not at equality); get(user_id) returns None for an expired session and
\* removes it from the store, and returns any other stored session.
C5_LookupNeverReturnsExpired ==
    [][\A u \in Users : StoreGet(u) =>
          LET id == sessions[u] IN
          IF id = None
          THEN lastCall'.ret = None /\ sessions'[u] = None
          ELSE IF now - heap[id].last_activity > SESSION_TTL_SECONDS
               THEN /\ lastCall'.ret = None
                    /\ sessions'[u] = None
                    /\ id \notin DOMAIN heap'
               ELSE /\ lastCall'.ret = id
                    /\ sessions'[u] = id
                    /\ id \in DOMAIN heap']_vars

\* A lookup found a session whose idle time had passed the TTL and evicted it.
C5_Witness ==
    /\ lastCall.op = "get"
    /\ lastCall.ret = None
    /\ lastCall.dropped # << >>
    /\ now - lastCall.dropped[1].last_activity > SESSION_TTL_SECONDS
    /\ sessions[lastCall.user] = None

\* C8: create(user_id, ...) leaves exactly one session for the user, holding
\* the new video and transcript, an empty summary, an empty chat history, the
\* default language and is_processing = false, whatever it replaces.
C8_CreateCarriesNothingOver ==
    [][\A u \in Users, v \in Videos : \A text \in TranscriptTexts(v) :
          StoreCreate(u, v, text) =>
              /\ sessions'[u] # None
              /\ DOMAIN heap' = Stored(sessions')
              /\ heap'[sessions'[u]] =
                     [video_id |-> v, transcript_text |-> text,
                      summary |-> NoText, language |-> DEFAULT_LANGUAGE,
                      chat_history |-> << >>, last_activity |-> now,
                      is_processing |-> FALSE]
              /\ turnLog'[sessions'[u]] = << >>]_vars

\* create replaced a busy session with a summary, turns and another language.
C8_Witness ==
    /\ lastCall.op = "create"
    /\ lastCall.dropped # << >>
    /\ lastCall.dropped[1].summary # NoText
    /\ lastCall.dropped[1].chat_history # << >>
    /\ lastCall.dropped[1].language # DEFAULT_LANGUAGE
    /\ lastCall.dropped[1].is_processing
    /\ lastCall.dropped[1].video_id # heap[lastCall.ret].video_id

\* C9: after k calls of add_chat_turn a session's chat_history is the last
\* min(k, MAX_CHAT_HISTORY) turns added, question then answer, in the order
\* they were added.
Min(a, b) == IF a < b THEN a ELSE b
LastTurns(id) ==
    LET k == Len(turnLog[id])
        m == Min(k, MAX_CHAT_HISTORY)
    IN [i \in 1 .. 2 * m |->
           LET turn == turnLog[id][k - m + ((i + 1) \div 2)] IN
           IF i % 2 = 1
           THEN [role |-> "user", content |-> turn[1]]
           ELSE [role |-> "assistant", content |-> turn[2]]]
C9_HistoryIsLastTurns ==
    \A id \in DOMAIN heap :
        /\ heap[id].chat_history = LastTurns(id)
        /\ Len(heap[id].chat_history) <= 2 * MAX_CHAT_HISTORY

\* More turns were added than the history keeps, so the oldest was dropped.
C9_Witness ==
    \E id \in DOMAIN heap : Len(turnLog[id]) > MAX_CHAT_HISTORY

\* C10 as stated: get_transcript returns the cached structure unchanged and
\* makes no provider call when the entry's age is <= CACHE_TTL, and discards
\* the entry and fetches again when its age is > CACHE_TTL.
C10_Original_FreshThroughTtl ==
    [][\A v \in Videos : \A prov \in ProviderReplies(v) :
          (CacheGetTranscript(v, prov) /\ v \in DOMAIN cache) =>
              IF now - cache[v].cached_at <= TRANSCRIPT_CACHE_TTL_SECONDS
              THEN /\ lastFetch'.data = <<cache[v]>>
                   /\ lastFetch'.provider_calls = 0
                   /\ cache' = cache
              ELSE /\ lastFetch'.provider_calls >= 1
                   /\ (v \in DOMAIN cache' => cache'[v].cached_at = now)]_vars

\* C10 amended: the cached structure is returned unchanged, with no provider
\* call, when the entry's age is < CACHE_TTL; at age >= CACHE_TTL the entry is
\* discarded and the transcript is fetched again from the provider.
C10_FreshBelowTtl ==
    [][\A v \in Videos : \A prov \in ProviderReplies(v) :
          (CacheGetTranscript(v, prov) /\ v \in DOMAIN cache) =>
              IF now - cache[v].cached_at < TRANSCRIPT_CACHE_TTL_SECONDS
              THEN /\ lastFetch'.data = <<cache[v]>>
                   /\ lastFetch'.error_type = ""
                   /\ lastFetch'.provider_calls = 0
                   /\ cache' = cache
              ELSE /\ lastFetch'.provider_calls >= 1
                   /\ (v \in DOMAIN cache' =>
                          /\ cache'[v].cached_at = now
                          /\ lastFetch'.data = <<cache'[v]>>)
                   /\ (v \notin DOMAIN cache' => lastFetch'.data = << >>)]_vars

\* A call was served from an entry cached earlier, and the provider was not
\* asked.
C10_Witness ==
    /\ lastFetch.video # None
    /\ lastFetch.provider_calls = 0
    /\ lastFetch.data # << >>
    /\ lastFetch.data[1].cached_at < now
    /\ cache[lastFetch.video] = lastFetch.data[1]

\* The entry of video x is one _cache_get would serve.
ValidEntry(c, x) ==
    x \in DOMAIN c /\ now - c[x].cached_at < TRANSCRIPT_CACHE_TTL_SECONDS

\* C11: get_transcript writes a cache entry for the video, stamped with the
\* current time, exactly when a fetch from the provider succeeds, and returns
\* that entry; a call that fails adds no entry and changes no valid entry; a
\* call served from the cache writes nothing.
C11_CacheWrittenOnSuccessOnly ==
    [][\A v \in Videos : \A prov \in ProviderReplies(v) :
          CacheGetTranscript(v, prov) =>
              LET r == lastFetch'
                  kept == \A x \in DOMAIN cache :
                              ValidEntry(cache, x) =>
                                  x \in DOMAIN cache' /\ cache'[x] = cache[x]
              IN CASE r.error_type # "" ->
                        /\ r.data = << >>
                        /\ v \notin DOMAIN cache'
                        /\ DOMAIN cache' \subseteq DOMAIN cache
                        /\ kept
                   [] r.error_type = "" /\ r.provider_calls > 0 ->
                        /\ v \in DOMAIN cache'
                        /\ cache'[v].cached_at = now
                        /\ r.data = <<cache'[v]>>
                        /\ \A x \in DOMAIN cache' \ {v} :
                               x \in DOMAIN cache /\ cache'[x] = cache[x]
                   [] OTHER -> cache' = cache]_vars

\* A call failed while the valid entry of another video stayed in the cache.
C11_Witness ==
    /\ lastFetch.error_type # ""
    /\ lastFetch.provider_calls > 0
    /\ \E x \in DOMAIN cache : x # lastFetch.video /\ ValidEntry(cache, x)

\* C12: a request makes no further model call and no further provider call
\* after one of its calls failed: a failed chunk call is followed by no chunk
\* call and no merge call, and a failed transcript fetch is only reported.
C12_NoCallAfterFailure ==
    [][\A t \in Tasks :
          /\ ModelCallFails(t) =>
                 /\ task'[t].pc \in {"send", "done"}
                 /\ task'[t].calls = task[t].calls
          /\ (task[t].outcome = "error" /\ task'[t] # task[t]) =>
                 /\ task'[t].pc = "done"
                 /\ task'[t].calls = task[t].calls
                 /\ <<cache, lastFetch>>' = <<cache, lastFetch>>
          /\ (task[t].pc = "report" /\ task'[t] # task[t]) =>
                 /\ task'[t].pc = "done"
                 /\ task'[t].calls = 0
                 /\ <<cache, lastFetch>>' = <<cache, lastFetch>>]_vars

\* A chunked summary ended at a failing chunk call that was not the first,
\* with the merge call never made.
C12_Witness ==
    \E t \in Tasks :
        /\ task[t].pc = "done" /\ task[t].op = "summary"
        /\ task[t].outcome = "error" /\ task[t].reply = ERROR_PROCESSING
        /\ task[t].calls > 1 /\ task[t].calls <= NumChunks

\* The chunks, each followed by some whitespace, spell the text.
RECURSIVE Rebuilds(_, _)
Rebuilds(text, chunks) ==
    IF chunks = << >> THEN \A i \in DOMAIN text : text[i] \in Whitespace
    ELSE LET c == Head(chunks) IN
         /\ Len(c) <= Len(text)
         /\ UpTo(text, Len(c)) = c
         /\ \E k \in 0 .. Len(text) - Len(c) :
                /\ \A i \in 1 .. k : text[Len(c) + i] \in Whitespace
                /\ Rebuilds(From(text, Len(c) + k), Tail(chunks))

RECURSIVE TotalLen(_)
TotalLen(chunks) ==
    IF chunks = << >> THEN 0 ELSE Len(Head(chunks)) + TotalLen(Tail(chunks))

\* C14: the chunks the splitter returns are contiguous pieces of the text, in
\* order and without overlap, and what lies between two of them (and after
\* the last) is whitespace only: the chunks with that whitespace put back
\* are the text.
C14_ChunksRebuildText ==
    split.pc = "returned" => Rebuilds(split.text, split.chunks)

\* A text was split into three chunks or more, with whitespace trimmed.
C14_Witness ==
    /\ split.pc = "returned"
    /\ Len(split.chunks) >= 3
    /\ TotalLen(split.chunks) < Len(split.text)

\* C15: no chunk the splitter returns is longer than the chunk size.
C15_ChunkWithinSize ==
    split.pc = "returned" =>
        \A i \in DOMAIN split.chunks : Len(split.chunks[i]) <= split.chunk_size

\* A text with no newline was cut at the size limit.
C15_Witness ==
    /\ split.pc = "returned"
    /\ Len(split.text) > split.chunk_size
    /\ \A i \in DOMAIN split.text : split.text[i] # "\n"
    /\ \E i \in DOMAIN split.chunks : Len(split.chunks[i]) = split.chunk_size

\* C13: generate_summary makes exactly one model call, with the whole
\* transcript, when the transcript has at most 2 * CHUNK_SIZE characters;
\* otherwise one call per chunk in chunk order, each answered before the next
\* is made, then exactly one merge call over the chunk summaries joined in
\* that order; what it returns is the text of its last call.
C13_CallsOfGenerateSummary ==
    gen.pc # "idle" =>
        LET P == gen.prompts
            A == gen.replies
            chunks == split_transcript(gen.text, CHUNK_SIZE_CHARS)
            n == Len(chunks)
        IN /\ Len(A) = IF gen.pc = "returned" THEN Len(P) ELSE Len(P) - 1
           /\ IF Len(gen.text) <= 2 * CHUNK_SIZE_CHARS
              THEN /\ P = <<SummaryPrompt(gen.text)>>
                   /\ gen.pc = "returned" => gen.result = <<A[1]>>
              ELSE /\ Len(P) \in 1 .. n + 1
                   /\ \A i \in 1 .. Len(P) :
                          /\ i <= n => P[i] = SectionPrompt(i, n, chunks[i])
                          /\ i = n + 1 =>
                                 /\ P[i].kind = "summary"
                                 /\ P[i].transcript = << >>
                                 /\ P[i].sections = SubSeq(A, 1, n)
                   /\ gen.pc = "returned" =>
                          Len(P) = n + 1 /\ gen.result = <<A[n + 1]>>

\* A summary over three chunks or more was returned.
C13_Witness ==
    /\ gen.pc = "returned"
    /\ Len(gen.chunks) >= 3
    /\ Len(gen.prompts) = Len(gen.chunks) + 1
    /\ gen.replies[1] # gen.replies[2]

\* Coroutine t waits for the model or for the transcript provider.
InExternalCall(t) == AwaitsModel(t) \/ InProviderCall(t)

\* C16: while a request waits on a call to the model or to the transcript
\* provider, a message of another user can be taken up (as long as a
\* further request can arrive at all).
C16_OthersServedDuringCalls ==
    \A t \in Tasks :
        (InExternalCall(t) /\ \E t2 \in Tasks : task[t2].pc = "idle") =>
            ENABLED (\E t2 \in Tasks, u \in Users \ {task[t].user} :
                        ReceiveText(t2, u, "", FALSE, 1))

\* C16, second part: a request is turned away as busy only when the session
\* of the user who sent it is busy, whatever the sessions of other users are.
C16_RejectedOnlyByOwnSession ==
    [][\A t \in Tasks : Rejected(t) => Busy(task'[t].user)]_vars

\* C16, first part for the model alone: while a request awaits the model, a
\* message of another user can be taken up.
C16_OthersServedDuringModelCalls ==
    \A t \in Tasks :
        (AwaitsModel(t) /\ \E t2 \in Tasks : task[t2].pc = "idle") =>
            ENABLED (\E t2 \in Tasks, u \in Users \ {task[t].user} :
                        ReceiveText(t2, u, "", FALSE, 1))

\* The provider is asked: the cache holds no entry of v that is served.
Asked(v) == ~ValidEntry(cache, v)

\* The kind of failure the provider's answer calls for, "" for none.
ExpectedKind(prov) ==
    CASE prov.list = "disabled" -> "disabled"
      [] prov.list = "unavailable" -> "unavailable"
      [] prov.list = "error" -> "generic"
      [] prov.list = "ok" /\ prov.listing = << >> -> "not_found"
      [] prov.list = "ok" /\ prov.listing # << >> /\ prov.fetch = "error" ->
             "generic"
      [] OTHER -> ""

\* C17: get_transcript fails with disabled exactly when the provider reports
\* captions disabled, with unavailable when it reports the video unavailable,
\* with not_found when the listing succeeds and lists nothing to pick, with
\* generic on every other failure of listing or fetching; when it fails it
\* returns nothing, and otherwise it returns a result.
C17_ErrorKinds ==
    [][\A v \in Videos : \A prov \in ProviderReplies(v) :
          (CacheGetTranscript(v, prov) /\ Asked(v)) =>
              /\ lastFetch'.error_type = ExpectedKind(prov)
              /\ lastFetch'.error_type # "" <=> lastFetch'.data = << >>]_vars

\* A fetch failed after the listing had succeeded.
C17_Witness ==
    /\ lastFetch.error_type = "generic"
    /\ lastFetch.provider_calls = 2
    /\ lastFetch.data = << >>

\* The positions of the listing that hold a transcript of language code and
\* of the given kind, and the first of a set of positions.
Positions(listing, code, generated) ==
    {i \in DOMAIN listing : /\ listing[i].language_code = code
                            /\ listing[i].is_generated = generated}
First(I) == CHOOSE i \in I : \A j \in I : i <= j
\* The transcript the priority order calls for, from a listing that has one.
Preferred(listing) ==
    IF Positions(listing, "en", FALSE) # {}
    THEN listing[First(Positions(listing, "en", FALSE))]
    ELSE IF Positions(listing, "en", TRUE) # {}
    THEN listing[First(Positions(listing, "en", TRUE))]
    ELSE listing[1]

LanguageAccepted(t) ==
    /\ task[t].pc = "done" /\ task[t].kind = "language"
    /\ task[t].reply \in {"language_set", "language_noted"}

\* C19: after an acknowledged /language <code>, a summary or an answer then
\* requested for the same user by a message that names no language itself is
\* requested in that language, whether or not the user had a session when
\* the command arrived.
C19_LanguageCommandSetsPreference ==
    \A t1, t2 \in Tasks :
        (/\ t1 < t2
         /\ LanguageAccepted(t1)
         /\ task[t2].user = task[t1].user
         /\ task[t2].lang = ""
         /\ AwaitsModel(t2)
         /\ task[t2].op \in {"summary", "qa"}) =>
            task[t2].genlang = task[t1].lang

\* User u has no active session: none was created, or the one stored is
\* expired.
NoActiveSession(u) ==
    sessions[u] = None \/ is_expired(heap[sessions[u]], now)

\* C20: a question, /deepdive, /actionpoints or /summary of a user with no
\* active session is answered with the no-session message at once, starts no
\* model call and leaves the user without a session.
C20_NoSessionMessage ==
    [][\A t \in Tasks :
          (/\ Arriving(t)
           /\ task'[t].kind \in {"text", "deepdive", "actionpoints", "summary"}
           /\ NoActiveSession(task'[t].user)) =>
              /\ task'[t].pc = "done"
              /\ task'[t].reply = ERROR_NO_SESSION
              /\ task'[t].calls = 0
              /\ task'[t].op = ""
              /\ sessions'[task'[t].user] = None]_vars

\* A command was answered with the no-session message after the session the
\* user's link had created expired.
C20_Witness ==
    \E t1, t2 \in Tasks :
        /\ t1 < t2
        /\ task[t1].pc = "done" /\ task[t1].kind = "link"
        /\ task[t1].reply = "result"
        /\ task[t2].pc = "done" /\ task[t2].kind = "deepdive"
        /\ task[t2].user = task[t1].user
        /\ task[t2].reply = ERROR_NO_SESSION

\* The pending call of generate_summary ends with an empty or a blank response
\* in this step.
EmptyResponse == \E outcome \in {"empty", "blank"} : GenReturn(outcome)

\* C21: when a model call of a request comes back empty or blank, the request
\* ends there: no further model call is made for it and what it returns, to
\* be shown to the user, is the empty-response notice.
C21_EmptyResponseSurfaced ==
    [][EmptyResponse =>
          /\ gen'.pc = "returned"
          /\ gen'.prompts = gen.prompts
          /\ gen'.result = <<EmptyNotice>>]_vars

\* C21 for a response that is empty (not blank) to the only call or to the
\* merge call: the notice is returned and no further call is made.
C21_EmptyLastResponseSurfaced ==
    [][(GenReturn("empty") /\ Len(gen.prompts) \in {1 + Len(gen.chunks)}) =>
          /\ gen'.pc = "returned"
          /\ gen'.prompts = gen.prompts
          /\ gen'.result = <<EmptyNotice>>]_vars

\* The patterns, in order, whose match captured a supported language.
Yielding(text) ==
    {k \in 1 .. 4 : /\ LANGUAGE_PATTERNS(text)[k] # << >>
                    /\ lower(LANGUAGE_PATTERNS(text)[k][1]) \in SUPPORTED_LANGUAGES}

\* C22: detect_language_request returns the lower-cased word captured by the
\* first of its four patterns, in order, whose match captures a supported
\* language; a pattern whose match captures an unsupported word does not end
\* the search; the result is none exactly when no pattern's match captures a
\* supported language. "summarize in french" gives none, "hindi" alone gives
\* "hindi", "summarize in hindi" gives "hindi".
C22_FirstSupportedCapture ==
    detect.pc = "returned" =>
        LET text == detect.text
            Y == Yielding(text)
        IN /\ Y = {} <=> detect.ret = ""
           /\ Y # {} =>
                  LET k == CHOOSE k \in Y : \A j \in Y : k <= j
                  IN detect.ret = lower(LANGUAGE_PATTERNS(text)[k][1])
           /\ detect.ret # "" => detect.ret \in SUPPORTED_LANGUAGES
           /\ text = <<"summarize", "in", "french">> => detect.ret = ""
           /\ text = <<"hindi">> => detect.ret = "hindi"
           /\ text = <<"summarize", "in", "hindi">> => detect.ret = "hindi"
           /\ text = <<"what">> => detect.ret = ""

\* The first pattern's match captured a word that is no language, and a later
\* pattern gave the language, written with a capital.
C22_Witness ==
    /\ detect.pc = "returned"
    /\ Pattern1(detect.text) # << >>
    /\ lower(Pattern1(detect.text)[1]) \notin SUPPORTED_LANGUAGES
    /\ detect.ret = "hindi"
    /\ \A i \in DOMAIN detect.text : detect.text[i] # "hindi"

\* C23: a joined transcript text longer than MAX_TRANSCRIPT_CHARS is returned
\* as its first MAX_TRANSCRIPT_CHARS characters followed by the truncation
\* marker, whatever character the cut falls on; a text that is not longer is
\* returned unchanged, without a marker.
C23_TruncatedAtLimit ==
    built.pc = "returned" =>
        LET full == built.full_text
            ret == built.transcript_text
        IN IF Len(full) > MAX_TRANSCRIPT_CHARS
           THEN /\ Len(ret) = MAX_TRANSCRIPT_CHARS + Len(TruncationMarker)
                /\ \A i \in 1 .. MAX_TRANSCRIPT_CHARS : ret[i] = full[i]
                /\ From(ret, MAX_TRANSCRIPT_CHARS) = TruncationMarker
           ELSE /\ ret = full
                /\ \A i \in DOMAIN ret : ret[i] # TruncationMarker[3]

\* A text was cut in the middle of a word.
C23_Witness ==
    /\ built.pc = "returned"
    /\ Len(built.full_text) > MAX_TRANSCRIPT_CHARS + 1
    /\ built.full_text[MAX_TRANSCRIPT_CHARS] \notin Whitespace
    /\ built.full_text[MAX_TRANSCRIPT_CHARS + 1] \notin Whitespace
    /\ Len(built.transcript_text) =
           MAX_TRANSCRIPT_CHARS + Len(TruncationMarker)

\* C24: split_message returns no chunk longer than the limit; a text no
\* longer than the limit comes back as the single chunk it is; and the chunks
\* are consecutive pieces of the text, in order, with only whitespace dropped
\* between them and after the last.
C24_MessageChunks ==
    message.pc = "returned" =>
        /\ \A i \in DOMAIN message.chunks :
               Len(message.chunks[i]) <= message.max_length
        /\ Len(message.text) <= message.max_length =>
               message.chunks = <<message.text>>
        /\ Rebuilds(message.text, message.chunks)

\* A text was split at a paragraph break, and whitespace was trimmed on both
\* sides of the split.
C24_Witness ==
    /\ message.pc = "returned"
    /\ Len(message.chunks) >= 2
    /\ rfind_sub(message.text, <<"\n", "\n">>, 0, message.max_length) > 0
    /\ TotalLen(message.chunks) + 2 < Len(message.text)

\* C25: the summary a session holds, when it is a summary the model wrote,
\* was written for that session's own video: none produced for one video is
\* stored in the session of another.
C25_SummaryOfOwnTranscript ==
    \A id \in DOMAIN heap :
        heap[id].summary.tag = "summary" =>
            heap[id].summary.video = heap[id].video_id

\* Request t has set is_processing on the session it holds and has not yet
\* reset it: it stands between line 159 and line 174, or between the
\* assignment of lines 223, 247, 302, 336 and the end of its model call.
HoldsFlag(t) ==
    /\ task[t].session # None
    /\ \/ task[t].kind = "link" /\ task[t].pc \in {"edit2", "model"}
       \/ task[t].kind # "link" /\ task[t].pc \in {"ack", "model"}

\* Request t takes a step that sets is_processing of session id to false.
ClearsFlag(t, id) ==
    /\ task'[t] # task[t]
    /\ id \in DOMAIN heap /\ id \in DOMAIN heap'
    /\ heap[id].is_processing /\ ~heap'[id].is_processing

\* C26: the busy flag of a session is reset only by the request that set it:
\* no request sets is_processing to false on a session while another request,
\* which set it to true, is still in flight.
C26_FlagClearedByItsSetter ==
    [][\A t \in Tasks : \A id \in DOMAIN heap :
          ClearsFlag(t, id) =>
              ~\E t2 \in Tasks \ {t} : HoldsFlag(t2) /\ task[t2].session = id]_vars

\* C27: while a request's long-running operation is in flight, the session
\* object the request holds is the one stored for its user: it has not been
\* replaced by create_session nor taken out by a lookup or a sweep, so what
\* the request writes at the end is in the session later lookups return.
C27_HeldSessionStaysStored ==
    \A t \in Tasks :
        AwaitsModel(t) => sessions[task[t].user] = task[t].session

\* What create_session, the model's results and /language write of a session.
Content(s) ==
    <<s.video_id, s.transcript_text, s.summary, s.chat_history, s.language>>

\* The link handler t goes from get_transcript to its except clause, or from
\* there to its end, in this step.
FetchFails(t) == task[t].pc = "fetching" /\ task'[t].pc = "report"
ReportsFailure(t) == task[t].pc = "report" /\ task'[t].pc = "done"

\* C28: when the transcript fetch of a video link fails with a
\* TranscriptError, the handler creates and replaces no session and makes no
\* model call: from the failing fetch to its end the store maps every user
\* to the session it mapped to, and every stored session keeps its video,
\* transcript, summary, chat history and language, and is_processing is not
\* set on any.
C28_FailedFetchKeepsSession ==
    [][\A t \in Tasks : (FetchFails(t) \/ ReportsFailure(t)) =>
          /\ sessions' = sessions
          /\ \A id \in Stored(sessions) :
                 /\ Content(heap'[id]) = Content(heap[id])
                 /\ heap'[id].is_processing => heap[id].is_processing
          /\ task'[t].calls = 0
          /\ task'[t].op = ""
          /\ task'[t].pc = "done" =>
                 task'[t].reply \in {ERROR_NO_TRANSCRIPT, ERROR_VIDEO_NOT_FOUND,
                                     ERROR_PROCESSING}]_vars

\* A link failed for want of a transcript while the user's session, with the
\* summary of an earlier video, stayed in the store.
C28_Witness ==
    \E t1, t2 \in Tasks :
        /\ t1 < t2
        /\ task[t1].pc = "done" /\ task[t1].kind = "link"
        /\ task[t1].reply = "result"
        /\ task[t2].pc = "done" /\ task[t2].kind = "link"
        /\ task[t2].user = task[t1].user
        /\ task[t2].fetched /\ task[t2].reply = ERROR_NO_TRANSCRIPT
        /\ sessions[task[t2].user] # None
        /\ heap[sessions[task[t2].user]].summary.tag = "summary"

\* The session stored for u was last active no more than the TTL ago.
WithinTtl(u) ==
    /\ sessions[u] # None
    /\ now - heap[sessions[u]].last_activity <= SESSION_TTL_SECONDS

\* Every session last active no more than the TTL ago stays in the store in
\* this step.
ActiveKept ==
    \A u \in Users : WithinTtl(u) =>
        sessions'[u] = sessions[u] /\ sessions[u] \in DOMAIN heap'

\* C29: get(user_id) on a session that is not expired returns it with
\* last_activity set to the current time and nothing else changed; and no
\* lookup and no sweep made within SESSION_TTL of a session's last activity
\* takes it out of the store, so a session looked up at intervals of at most
\* SESSION_TTL stays.
C29_LookupRefreshes ==
    [][/\ \A u \in Users : StoreGet(u) =>
              /\ ActiveKept
              /\ WithinTtl(u) =>
                     /\ lastCall'.ret = sessions[u]
                     /\ heap'[sessions[u]] =
                            [heap[sessions[u]] EXCEPT !.last_activity = now]
       /\ StoreCleanup => ActiveKept]_vars

\* A lookup made when the TTL had passed twice since the start returned a
\* session that holds a summary, and set its last activity to that time.
C29_Witness ==
    /\ now = 2 * SESSION_TTL_SECONDS
    /\ lastCall.op = "get"
    /\ lastCall.ret # None
    /\ heap[lastCall.ret].last_activity = now
    /\ heap[lastCall.ret].summary # NoText

\* The users whose stored session is expired at the current time.
ExpiredUsers ==
    {u \in Users : /\ sessions[u] # None
                   /\ now - heap[sessions[u]].last_activity > SESSION_TTL_SECONDS}

\* C30: the sweep removes exactly the sessions with
\* now - last_activity > SESSION_TTL, returns their number, and leaves every
\* other session in the store with all its fields unchanged; after it no
\* stored session is expired.
C30_SweepRemovesExactlyExpired ==
    [][StoreCleanup =>
          /\ \A u \in Users :
                 IF u \in ExpiredUsers
                 THEN sessions'[u] = None /\ sessions[u] \notin DOMAIN heap'
                 ELSE /\ sessions'[u] = sessions[u]
                      /\ sessions[u] # None =>
                             heap'[sessions[u]] = heap[sessions[u]]
          /\ lastCall'.ret = Cardinality(ExpiredUsers)
          /\ \A u \in Users :
                 sessions'[u] # None =>
                     now' - heap'[sessions'[u]].last_activity
                         <= SESSION_TTL_SECONDS]_vars

\* A sweep removed one user's session and left the other user's, which was
\* last active exactly the TTL ago.
C30_Witness ==
    /\ lastCall.op = "cleanup"
    /\ lastCall.ret = 1
    /\ \E u \in Users :
           /\ sessions[u] # None
           /\ now - heap[sessions[u]].last_activity = SESSION_TTL_SECONDS
           /\ \A u2 \in Users \ {u} : sessions[u2] = None

\* The 0-based places of the newlines in the first chunk_size characters of
\* text. A place is in the latter half of that window, the places
\* 0 .. chunk_size - 1, when it is at or past the middle of it.
NewlinesInWindow(text, chunk_size) ==
    {i \in 0 .. chunk_size - 1 : i < Len(text) /\ text[i + 1] = "\n"}
InLatterHalf(i, chunk_size) == 2 * i >= chunk_size - 1

\* chunk is the piece one step cuts from text, a text longer than chunk_size.
CutAsStated(text, chunk_size, chunk) ==
    LET N == NewlinesInWindow(text, chunk_size) IN
    /\ chunk = UpTo(text, Len(chunk))
    /\ IF \E i \in N : (\A j \in N : j <= i) /\ InLatterHalf(i, chunk_size)
       THEN Len(chunk) \in N /\ \A j \in N : j <= Len(chunk)
       ELSE Len(chunk) = chunk_size

\* rest is what text[at:] is without its leading whitespace.
TrimmedFrom(text, at, rest) ==
    \E k \in at .. Len(text) :
        /\ rest = From(text, k)
        /\ \A i \in at + 1 .. k : text[i] \in Whitespace
        /\ rest # << >> => rest[1] \notin Whitespace

\* The steps that lead from text to chunks: while the text is longer than
\* chunk_size a piece is cut as stated and the trimmed remainder goes on.
RECURSIVE StepsAsStated(_, _, _)
StepsAsStated(text, chunk_size, chunks) ==
    IF Len(text) <= chunk_size THEN Len(chunks) <= 1
    ELSE /\ chunks # << >>
         /\ CutAsStated(text, chunk_size, Head(chunks))
         /\ \E k \in Len(Head(chunks)) .. Len(text) :
                /\ TrimmedFrom(text, Len(Head(chunks)), From(text, k))
                /\ StepsAsStated(From(text, k), chunk_size, Tail(chunks))

\* C31: at each step on a text longer than the chunk size the splitter cuts
\* at the last newline of the first chunk_size characters when that newline
\* lies in the latter half of the window, and at exactly chunk_size
\* characters otherwise; the next step starts from the remainder without its
\* leading whitespace.
C31_CutAtLastNewlineOrSize ==
    split.pc = "returned" =>
        StepsAsStated(split.text, split.chunk_size, split.chunks)

\* One step cut at a newline before the size limit and another cut at the
\* limit although the window had a newline, in its first half.
C31_Witness ==
    /\ split.pc = "returned"
    /\ \E i, j \in 1 .. Len(split.chunks) - 1 :
           /\ Len(split.chunks[i]) < split.chunk_size
           /\ Len(split.chunks[j]) = split.chunk_size
           /\ split.chunks[j][1] = "\n"

\* The call returned and none of its chunks is empty.
ReturnsNonEmpty ==
    loop.pc = "returned" => \A i \in DOMAIN loop.chunks : loop.chunks[i] # << >>

\* A pass of the loop body appends a chunk of at least one character, and
\* when the loop goes on the remaining text is shorter than before.
PassConsumes ==
    /\ Len(loop'.chunks) = Len(loop.chunks) + 1
    /\ Len(loop'.chunks[Len(loop'.chunks)]) >= 1
    /\ loop'.pc = "while" => Len(loop'.text) < Len(loop.text)

C35_SummaryIsModelText ==
    \A id \in DOMAIN heap :
        \/ heap[id].summary = NoText
        \/ \E v \in Videos, l \in SUPPORTED_LANGUAGES :
               heap[id].summary = SummaryText(v, l)

\* Request t arrives in this step.
ArrivesNow(t) == task[t].pc = "idle" /\ task'[t].pc # "idle"

\* A pattern of the detector matches the text on a word that is not a
\* supported language, and the detector returns no language.
UnsupportedMatch(text) ==
    /\ detect_language_request(text) = ""
    /\ \E k \in DOMAIN LANGUAGE_PATTERNS(text) :
           LANGUAGE_PATTERNS(text)[k] # << >>

\* C32: the language of every session is a key of the supported-language
\* table; /language with an unsupported code is answered with the rejection
\* and changes no session's language, and a message in which the detector
\* matches only unsupported words changes none either.
C32_LanguageAlwaysSupported ==
    /\ [](\A id \in DOMAIN heap : heap[id].language \in SUPPORTED_LANGUAGES)
    /\ [][\A t \in Tasks :
             /\ ArrivesNow(t) /\ task'[t].kind = "language"
                    /\ task'[t].lang \notin SUPPORTED_LANGUAGES \cup {""}
                 => /\ task'[t].reply = "unsupported"
                    /\ \A id \in DOMAIN heap :
                           id \in DOMAIN heap' /\ heap'[id].language = heap[id].language
             /\ ArrivesNow(t) /\ task'[t].kind = "text"
                    /\ UnsupportedMatch(task'[t].text)
                 => \A id \in DOMAIN heap :
                        id \in DOMAIN heap' => heap'[id].language = heap[id].language]_vars

\* The session's language is "hindi", and a text in which a pattern matches
\* "french" has passed the detector and is being answered as a question.
C32_Witness ==
    \E t \in Tasks :
        /\ task[t].kind = "text" /\ task[t].pc = "ack"
        /\ UnsupportedMatch(task[t].text)
        /\ heap[task[t].session].language = "hindi"

\* Coroutine t creates its session in this step.
CreatesSession(t) == task[t].pc = "fetching" /\ task'[t].pc = "edit2"

\* C33: the session a link handler creates has the language the detector
\* finds in the text of that message, and the default language when it finds
\* none, whatever the language of the session it replaces.
C33_NewSessionLanguageFromMessage ==
    [][\A t \in Tasks :
          CreatesSession(t) =>
              LET requested == detect_language_request(task[t].text)
                  new == task'[t].session
              IN /\ sessions'[task[t].user] = new
                 /\ new \notin DOMAIN heap
                 /\ heap'[new].language = IF requested # "" THEN requested
                                          ELSE DEFAULT_LANGUAGE]_vars

\* A link sent with no language made a session in the default language,
\* which replaced a session in "hindi" that another request still holds.
C33_Witness ==
    \E t, t2 \in Tasks :
        /\ task[t].kind = "link" /\ task[t].pc = "edit2"
        /\ task[t].text = <<"link">>
        /\ sessions[task[t].user] = task[t].session
        /\ heap[task[t].session].language = DEFAULT_LANGUAGE
        /\ task[t2].user = task[t].user
        /\ task[t2].session \notin {None, task[t].session}
        /\ heap[task[t2].session].language = "hindi"

\* Request t is a text in which the detector finds a supported language and
\* which has passed the session and busy checks.
SwitchesLanguage(t) ==
    /\ task[t].kind = "text" /\ task[t].pc \in {"ack", "model", "send"}
    /\ detect_language_request(task[t].text) # ""

\* C34: a text in which the detector finds a supported language sets the
\* session's language to it. With at most 4 words the handler then calls
\* generate_summary in the session's language, shows the summary it gets,
\* appends no chat turn and makes no Q&A call; with more than 4 words it
\* calls answer_question in the session's language, shows the answer and
\* appends the question and the answer as a chat turn.
C34_LanguageSwitchByLength ==
    [][\A t \in Tasks :
          LET tk == task[t]
              s == tk.session
              after == task'[t]
          IN /\ ArrivesNow(t) /\ after.kind = "text" /\ after.pc = "ack"
                    /\ detect_language_request(after.text) # ""
                 => /\ heap'[after.session].language =
                           detect_language_request(after.text)
                    /\ after.op = IF Len(after.text) <= 4
                                  THEN "resummary" ELSE "qa"
             /\ SwitchesLanguage(t) /\ tk.pc = "ack" /\ after.pc = "model"
                 => after.genlang = heap[s].language
             /\ SwitchesLanguage(t) /\ Len(tk.text) <= 4 /\ after # tk
                 => /\ s \in DOMAIN turnLog' => turnLog'[s] = turnLog[s]
                    /\ after.op = "resummary"
                    /\ after.pc = "send" =>
                           after.shown = SummaryText(heap[s].video_id, tk.genlang)
             /\ SwitchesLanguage(t) /\ Len(tk.text) > 4 /\ after # tk
                 => /\ after.op = "qa"
                    /\ tk.pc = "ack" => turnLog'[s] = turnLog[s]
                    /\ tk.pc = "model"
                        => /\ after.pc = "send"
                           /\ after.shown \in
                                  {AnswerText(heap[s].video_id, tk.genlang, tk.q),
                                   QaErrorNotice}
                           /\ turnLog'[s] = Append(turnLog[s],
                                                   <<QuestionText(tk.q),
                                                     after.shown>>)]_vars

\* A text of exactly 4 words that asks for "hindi" had the summary of the
\* session regenerated in "hindi", and the session has no chat turn.
C34_Witness ==
    \E t \in Tasks :
        /\ task[t].kind = "text" /\ task[t].pc = "send"
        /\ Len(task[t].text) = 4
        /\ task[t].op = "resummary"
        /\ heap[task[t].session].language = "hindi"
        /\ heap[task[t].session].summary = SummaryText(1, "hindi")
        /\ turnLog[task[t].session] = << >>

\* A text of 5 words that asks for "hindi" was answered in "hindi" and is a
\* chat turn of the session, whose summary is the one made before.
C34_WitnessLong ==
    \E t \in Tasks :
        /\ task[t].kind = "text" /\ task[t].pc = "send"
        /\ Len(task[t].text) = 5
        /\ heap[task[t].session].language = "hindi"
        /\ heap[task[t].session].summary = SummaryText(1, DEFAULT_LANGUAGE)
        /\ turnLog[task[t].session] =
               <<(<<QuestionText(1), AnswerText(1, "hindi", 1)>>)>>

====
